---- MODULE Spec2Model ----
(***************************************************************************)
(* Model of the research-in-public backend core:                           *)
(*   - LocalVectorSearch (services/vector_search_local.py): the local      *)
(*     vector store with validation, deduplication, auto-save and reload;  *)
(*   - AgentOrchestrator.process_message (orchestration/                   *)
(*     agent_orchestrator.py) with IntentClassifier.get_agent_mode.        *)
(*                                                                         *)
(* Text is a sequence of words; a word has a length (WordLen).  An         *)
(* embedding is a sequence of integers.  Similarities are compared with    *)
(* thresholds in exact integer arithmetic (cos >= n/d).                    *)
(***************************************************************************)
EXTENDS Integers, Sequences, FiniteSets, TLC

(***************************************************************************)
(* Bounds of the model.                                                    *)
(***************************************************************************)
\* The largest number of entries of the embedding list the model explores.
MaxStore == 2
\* settings.auto_save_interval as configured for the model: the setting is read
\* from AUTO_SAVE_INTERVAL (default 10), and the model runs the store with a
\* small interval so that auto-save happens within MaxStore additions.
AutoSaveInterval == 2

(***************************************************************************)
(* Settings (config/settings.py).                                          *)
(***************************************************************************)
\* settings.min_struggle_length (default of MIN_STRUGGLE_LENGTH)
min_struggle_length == 20
\* settings.deduplication_threshold = 0.95 = DedupNum / DedupDen
DedupNum == 95
DedupDen == 100

(***************************************************************************)
(* Text: words, lengths, str.strip().                                      *)
(***************************************************************************)
WordLen(w) ==
  CASE w = " " -> 1
    [] w = "struggling" -> 10
    [] w = "hard" -> 4
    [] w = "alone" -> 5
    [] w = "grant" -> 5
    [] w = "post" -> 4
    [] w = "code" -> 4
    [] w = "happy" -> 5
    [] w = "learned" -> 7
    [] w = "postdoc" -> 7
    [] w = "research" -> 8
    [] w = "experiment" -> 10
    [] OTHER -> 1

RECURSIVE StrLen(_)
\* len(text)
StrLen(t) == IF t = <<>> THEN 0 ELSE WordLen(Head(t)) + StrLen(Tail(t))

RECURSIVE LStrip(_)
LStrip(t) == IF t # <<>> /\ Head(t) = " " THEN LStrip(Tail(t)) ELSE t

RECURSIVE RStrip(_)
RStrip(t) ==
  IF t # <<>> /\ t[Len(t)] = " " THEN RStrip(SubSeq(t, 1, Len(t) - 1)) ELSE t

\* str.strip(): leading and trailing whitespace removed
Strip(t) == RStrip(LStrip(t))

\* Texts the model feeds to the store.
TextLongA == <<"struggling", " ", "research", " ", "experiment">>
TextLongB == <<"research", " ", "experiment", " ", "hard">>
TextLongC == <<"postdoc", " ", "research", " ", "experiment", " ", "alone">>
TextShort == <<"hard">>
\* A message without distress keyword, 24 characters
MsgNeutral == <<"research", " ", "experiment", " ", "code">>
\* 23 characters, 19 once stripped
TextPadded == <<" ", " ", " ", "research", " ", "experiment", " ">>

(***************************************************************************)
(* Embedding service (services/embedding_service.py).                      *)
(***************************************************************************)
\* generate_embedding(text) when the call succeeds: the external model is a
\* fixed function of the text.
generate_embedding(t) ==
  CASE t = TextLongA -> <<1, 0>>
    [] t = TextLongB -> <<10, 3>>
    [] t = TextLongC -> <<0, 1>>
    [] t = TextShort -> <<3, 1>>
    [] t = MsgNeutral -> <<20, 1>>
    [] OTHER -> <<1, 1>>

RECURSIVE Dot(_, _)
Dot(a, b) == IF a = <<>> THEN 0 ELSE Head(a) * Head(b) + Dot(Tail(a), Tail(b))

\* cosine_similarity(vec1, vec2) >= num/den.  The similarity is 0.0 when a
\* norm is 0 and when numpy raises (shapes differ); otherwise
\* dot / (norm1 * norm2).
CosSimGE(vec1, vec2, num, den) ==
  LET d  == Dot(vec1, vec2)
      n1 == Dot(vec1, vec1)
      n2 == Dot(vec2, vec2)
  IN  IF Len(vec1) # Len(vec2) \/ n1 = 0 \/ n2 = 0
        THEN 0 >= num
        ELSE IF num > 0
          THEN d > 0 /\ d * d * den * den >= num * num * n1 * n2
          ELSE d >= 0 \/ d * d * den * den <= num * num * n1 * n2

(***************************************************************************)
(* State.                                                                  *)
(***************************************************************************)
VARIABLES
  profiles,             \* self.profiles: dict in insertion order, a sequence of profiles with distinct profile_id
  embeddings,           \* self.embeddings
  profile_ids,          \* self.profile_ids
  index,                \* self.index: [built, vecs]
  use_faiss,            \* self.use_faiss
  additions_since_save, \* self.additions_since_save
  persisted_data_loaded,\* self._persisted_data_loaded
  file,                 \* the persistence file: [exists, data]
  last,                 \* the last completed call: its operation, arguments, result and number of persists
  loader,               \* the executor thread running _load_persisted_data: [pc, i, data]
  reloader,             \* the event loop running _load_persisted_data for the reload endpoint: [pc, i, data]
  adder,                \* an add_peer_profile call in progress on the event loop: [pc, profile]
  observed              \* what the last get_stats call returned

storeVars == <<profiles, embeddings, profile_ids, index, use_faiss,
               additions_since_save, persisted_data_loaded, file>>
threadVars == <<loader, adder, reloader, observed>>
vars == <<profiles, embeddings, profile_ids, index, use_faiss,
          additions_since_save, persisted_data_loaded, file,
          last, loader, adder, reloader, observed>>

\* The store object as one value.
Store ==
  [profiles |-> profiles, embeddings |-> embeddings, profile_ids |-> profile_ids,
   index |-> index, use_faiss |-> use_faiss,
   additions_since_save |-> additions_since_save,
   persisted_data_loaded |-> persisted_data_loaded, file |-> file]

SetStore(S) ==
  /\ profiles' = S.profiles
  /\ embeddings' = S.embeddings
  /\ profile_ids' = S.profile_ids
  /\ index' = S.index
  /\ use_faiss' = S.use_faiss
  /\ additions_since_save' = S.additions_since_save
  /\ persisted_data_loaded' = S.persisted_data_loaded
  /\ file' = S.file

(***************************************************************************)
(* PeerProfile (data/schemas.py) and the dict of profiles.                 *)
(***************************************************************************)
PeerProfile(id, emb, text, stage, area, meta) ==
  [profile_id |-> id, embedding |-> emb, struggle_text |-> text,
   academic_stage |-> stage, research_area |-> area, anonymized_metadata |-> meta]

Keys(d) == {d[i].profile_id : i \in 1..Len(d)}

\* d[key], for key in Keys(d)
Get(d, key) == d[CHOOSE i \in 1..Len(d) : d[i].profile_id = key]

\* d[p.profile_id] = p: a new key goes last, an existing key keeps its place
DictPut(d, p) ==
  IF p.profile_id \in Keys(d)
    THEN [i \in 1..Len(d) |-> IF d[i].profile_id = p.profile_id THEN p ELSE d[i]]
    ELSE Append(d, p)

(***************************************************************************)
(* JSONFilePersistence (services/vector_persistence.py).                   *)
(***************************************************************************)
\* The dictionary save() writes for one profile: the embedding is left out.
ProfileDict(p) ==
  [profile_id |-> p.profile_id, struggle_text |-> p.struggle_text,
   academic_stage |-> p.academic_stage, research_area |-> p.research_area,
   anonymized_metadata |-> p.anonymized_metadata]

\* JSONFilePersistence.save(profiles, path): the new file and the result;
\* ioOk is whether the write succeeds.
PersistenceSave(S, ioOk) ==
  IF ioOk
    THEN [file |-> [exists |-> TRUE,
                    data |-> [i \in 1..Len(S.profiles) |-> ProfileDict(S.profiles[i])]],
          ret |-> TRUE]
    ELSE [file |-> S.file, ret |-> FALSE]

\* save_to_json that writes nothing
save_to_json_skip(S, ioOk) == [store |-> S, ret |-> FALSE]

\* LocalVectorSearch.save_to_json()
save_to_json(S, ioOk) ==
  LET r == PersistenceSave(S, ioOk)
  IN  [store |-> [S EXCEPT !.file = r.file], ret |-> r.ret]

(***************************************************************************)
(* LocalVectorSearch.                                                      *)
(***************************************************************************)
\* _validate_profile
validate_profile(p) ==
  IF StrLen(Strip(p.struggle_text)) < min_struggle_length
    THEN FALSE
    ELSE IF Len(p.embedding) = 0 THEN FALSE ELSE TRUE

\* _is_duplicate comparing the dot product, not the cosine, with the threshold
is_duplicate_dot_product(S, p) ==
  IF S.embeddings = <<>>
    THEN FALSE
    ELSE \E i \in 1..Len(S.embeddings) :
           /\ Len(p.embedding) = Len(S.embeddings[i])
           /\ Dot(p.embedding, S.embeddings[i]) * DedupDen >= DedupNum

\* _is_duplicate
is_duplicate(S, p) ==
  IF S.embeddings = <<>>
    THEN FALSE
    ELSE \E i \in 1..Len(S.embeddings) :
           CosSimGE(p.embedding, S.embeddings[i], DedupNum, DedupDen)

\* _build_faiss_index: a flat inner-product index over the whole embedding
\* list; a list of vectors of different lengths makes numpy raise after the
\* empty index was assigned, and FAISS is switched off.
build_faiss_index(S) ==
  IF ~S.use_faiss \/ S.embeddings = <<>>
    THEN S
    ELSE IF \A i \in 1..Len(S.embeddings) : Len(S.embeddings[i]) = Len(S.embeddings[1])
      THEN [S EXCEPT !.index = [built |-> TRUE, vecs |-> S.embeddings]]
      ELSE [S EXCEPT !.index = [built |-> TRUE, vecs |-> <<>>], !.use_faiss = FALSE]

\* add_peer_profile that enters the profile in the dict before the duplicate
\* check
add_peer_profile_put_first(S, p, skip, ioOk) ==
  IF ~validate_profile(p)
    THEN [store |-> S, ret |-> FALSE, saves |-> 0]
    ELSE
      LET S0 == [S EXCEPT !.profiles = DictPut(S.profiles, p)]
      IN  IF ~skip /\ is_duplicate(S, p)
            THEN [store |-> S0, ret |-> FALSE, saves |-> 0]
            ELSE
              LET S1 == [S0 EXCEPT !.embeddings = Append(S.embeddings, p.embedding),
                                   !.profile_ids = Append(S.profile_ids, p.profile_id)]
                  S2 == IF S1.use_faiss /\ S1.embeddings # <<>> THEN build_faiss_index(S1) ELSE S1
                  S3 == [S2 EXCEPT !.additions_since_save = S2.additions_since_save + 1]
              IN  IF S3.additions_since_save >= AutoSaveInterval
                    THEN [store |-> [save_to_json(S3, ioOk).store EXCEPT !.additions_since_save = 0],
                          ret |-> TRUE, saves |-> 1]
                    ELSE [store |-> S3, ret |-> TRUE, saves |-> 0]

\* add_peer_profile(profile, skip_deduplication): the store after the call,
\* the returned bool and the number of save_to_json calls made.
add_peer_profile(S, p, skip, ioOk) ==
  IF ~validate_profile(p)
    THEN [store |-> S, ret |-> FALSE, saves |-> 0]
    ELSE IF ~skip /\ is_duplicate(S, p)
      THEN [store |-> S, ret |-> FALSE, saves |-> 0]
      ELSE
        LET S1 == [S EXCEPT !.profiles = DictPut(S.profiles, p),
                            !.embeddings = Append(S.embeddings, p.embedding),
                            !.profile_ids = Append(S.profile_ids, p.profile_id)]
            S2 == IF S1.use_faiss /\ S1.embeddings # <<>> THEN build_faiss_index(S1) ELSE S1
            S3 == [S2 EXCEPT !.additions_since_save = S2.additions_since_save + 1]
        IN  IF S3.additions_since_save >= AutoSaveInterval
              THEN [store |-> [save_to_json(S3, ioOk).store EXCEPT !.additions_since_save = 0],
                    ret |-> TRUE, saves |-> 1]
              ELSE [store |-> S3, ret |-> TRUE, saves |-> 0]

\* add_profiles_batch(profiles, skip_deduplication): add_peer_profile on each
\* profile in turn, then one more save when anything was added.  ioOk is
\* whether the file can be written during the call.
RECURSIVE batch_loop(_, _, _, _, _, _, _)
batch_loop(S, profs, k, skip, ioOk, added_count, saves) ==
  IF k > Len(profs)
    THEN [store |-> S, added_count |-> added_count, saves |-> saves]
    ELSE LET r == add_peer_profile(S, profs[k], skip, ioOk)
         IN  batch_loop(r.store, profs, k + 1, skip, ioOk,
                        IF r.ret THEN added_count + 1 ELSE added_count,
                        saves + r.saves)

add_profiles_batch(S, profs, skip, ioOk) ==
  LET r == batch_loop(S, profs, 1, skip, ioOk, 0, 0)
  IN  IF r.added_count > 0
        THEN [store |-> [save_to_json(r.store, ioOk).store
                           EXCEPT !.additions_since_save = 0],
              added_count |-> r.added_count, saves |-> r.saves + 1]
        ELSE [store |-> r.store, added_count |-> 0, saves |-> r.saves]

\* load_from_json(json_path, skip_deduplication): items is the content of the
\* JSON file; an unreadable file or a failing embedding call (callsOk false)
\* is re-raised and nothing is added.
load_from_json(S, items, skip, callsOk, ioOk) ==
  IF ~callsOk
    THEN [store |-> S, raised |-> TRUE, saves |-> 0]
    ELSE
      LET profs == [i \in 1..Len(items) |->
                      PeerProfile(items[i].profile_id,
                                  generate_embedding(items[i].struggle_text),
                                  items[i].struggle_text, items[i].academic_stage,
                                  items[i].research_area, "tags")]
          r == add_profiles_batch(S, profs, skip, ioOk)
      IN  [store |-> r.store, raised |-> FALSE, saves |-> r.saves]

\* The loop of _load_persisted_data over the loaded records: a record whose
\* embedding fails is skipped; the others enter the dict and the two lists at
\* once, and the index is rebuilt after every third record and after the last.
RECURSIVE load_loop(_, _, _, _)
load_loop(S, data, i, embFail) ==
  IF i > Len(data)
    THEN S
    ELSE IF i \in embFail
      THEN load_loop(S, data, i + 1, embFail)
      ELSE
        LET item == data[i]
            p  == PeerProfile(item.profile_id, generate_embedding(item.struggle_text),
                              item.struggle_text, item.academic_stage,
                              item.research_area, item.anonymized_metadata)
            S1 == [S EXCEPT !.profiles = DictPut(S.profiles, p),
                            !.embeddings = Append(S.embeddings, p.embedding),
                            !.profile_ids = Append(S.profile_ids, p.profile_id)]
            S2 == IF (i % 3 = 0 \/ i = Len(data)) /\ S1.use_faiss /\ S1.embeddings # <<>>
                    THEN build_faiss_index(S1)
                    ELSE S1
        IN  load_loop(S2, data, i + 1, embFail)

\* JSONFilePersistence.load(path): [] when the file is missing or unreadable
PersistenceLoad(f, readOk) == IF f.exists /\ readOk THEN f.data ELSE <<>>

\* _load_persisted_data()
load_persisted_data(S, readOk, embFail) ==
  IF S.persisted_data_loaded
    THEN S
    ELSE IF S.file.exists
      THEN LET data == PersistenceLoad(S.file, readOk)
           IN  IF data # <<>>
                 THEN [load_loop(S, data, 1, embFail) EXCEPT !.persisted_data_loaded = TRUE]
                 ELSE [S EXCEPT !.persisted_data_loaded = TRUE]
      ELSE [S EXCEPT !.persisted_data_loaded = TRUE]

\* add_peer_profile_from_session that returns the identifier whatever
\* add_peer_profile answers
add_peer_profile_from_session_any(S, enabled, text, stage, area, embOk, new_id, ioOk) ==
  IF ~enabled
    THEN [store |-> S, ret |-> "None", saves |-> 0]
    ELSE IF ~embOk
      THEN [store |-> S, ret |-> "None", saves |-> 0]
      ELSE [add_peer_profile(S, PeerProfile(new_id, generate_embedding(text), text,
                                            stage, area, "session"), FALSE, ioOk)
              EXCEPT !.ret = new_id]

\* add_peer_profile_from_session(struggle_text, user_id, academic_stage,
\* research_area, emotional_tags); enabled is settings.enable_real_user_data,
\* new_id the "user_<uuid4>" identifier drawn for the profile.
add_peer_profile_from_session(S, enabled, text, stage, area, embOk, new_id, ioOk) ==
  IF ~enabled
    THEN [store |-> S, ret |-> "None", saves |-> 0]
    ELSE IF ~embOk
      THEN [store |-> S, ret |-> "None", saves |-> 0]
      ELSE [add_peer_profile(S, PeerProfile(new_id, generate_embedding(text), text,
                                            stage, area, "session"), FALSE, ioOk)
              EXCEPT !.ret = IF @ THEN new_id ELSE "None"]

(***************************************************************************)
(* Inputs.                                                                 *)
(***************************************************************************)
\* Profiles handed to add_peer_profile by a caller.
InputProfiles ==
  { PeerProfile("a", <<1, 0>>, TextLongA, "None", "None", "none"),
    PeerProfile("b", <<10, 3>>, TextLongB, "None", "None", "none"),
    PeerProfile("a", <<0, 1>>, TextLongB, "None", "None", "none"),
    PeerProfile("e", <<>>, TextLongA, "None", "None", "none"),
    PeerProfile("f", <<1, 1>>, TextPadded, "None", "None", "none") }

\* Batches handed to add_profiles_batch.
InputBatches ==
  LET P(id, e, t) == PeerProfile(id, e, t, "None", "None", "none")
  IN  { <<P("a", <<1, 0>>, TextLongA), P("b", <<10, 3>>, TextLongB)>>,
        <<P("f", <<1, 1>>, TextShort)>> }

\* Records of a JSON file of profiles.
Item(id, text, stage) ==
  [profile_id |-> id, struggle_text |-> text, academic_stage |-> stage,
   research_area |-> "None", anonymized_metadata |-> "none"]

\* Contents of the JSON files handed to load_from_json.
InputJson ==
  { <<Item("a", TextLongA, "None"), Item("c", TextLongC, "Postdoc")>>,
    <<Item("h", TextShort, "None")>> }

\* Texts handed to add_peer_profile_from_session.
InputTexts == {TextLongA, TextShort}

\* The identifiers uuid4 yields, in the order they are drawn.
UserIds == <<"user_1", "user_2", "user_3", "user_4", "user_5">>

\* Identifiers in use: in the store or in the persistence file.
UsedIds(S) ==
  Keys(S.profiles) \cup {S.profile_ids[i] : i \in 1..Len(S.profile_ids)}
    \cup {S.file.data[i].profile_id : i \in 1..Len(S.file.data)}

HasFreshId(S) == {i \in 1..Len(UserIds) : UserIds[i] \notin UsedIds(S)} # {}

\* uuid4: an identifier no profile has
FreshId(S) ==
  UserIds[CHOOSE i \in 1..Len(UserIds) :
            /\ UserIds[i] \notin UsedIds(S)
            /\ \A j \in 1..(i - 1) : UserIds[j] \in UsedIds(S)]

NoCall == [op |-> "none"]

\* No thread besides the caller's: nothing in progress, nothing observed.
LoaderIdle == [pc |-> "idle", i |-> 0, data |-> <<>>]
AdderIdle == [pc |-> "idle"]
NoObservation == [op |-> "none"]

(***************************************************************************)
(* Initial state: LocalVectorSearch.__init__ on some persistence file.     *)
(***************************************************************************)
\* The persistence file found at start: missing, or written earlier.
InitialFiles ==
  { [exists |-> FALSE, data |-> <<>>],
    [exists |-> TRUE, data |-> <<Item("a", TextLongB, "None")>>],
    [exists |-> TRUE, data |-> <<Item("h", TextShort, "None"), Item("c", TextLongC, "Postdoc")>>] }

Init ==
  /\ profiles = <<>>
  /\ embeddings = <<>>
  /\ profile_ids = <<>>
  /\ index = [built |-> FALSE, vecs |-> <<>>]
  /\ use_faiss \in BOOLEAN
  /\ additions_since_save = 0
  /\ persisted_data_loaded = FALSE
  /\ file \in InitialFiles
  /\ last = NoCall
  /\ loader = LoaderIdle
  /\ reloader = LoaderIdle
  /\ adder = AdderIdle
  /\ observed = NoObservation

(***************************************************************************)
(* Calls on the store, one at a time.                                      *)
(***************************************************************************)
AddPeerProfileCall(skips) ==
  \E p \in InputProfiles, skip \in skips, ioOk \in BOOLEAN :
    \E r \in {add_peer_profile(Store, p, skip, ioOk)} :
      /\ Len(r.store.embeddings) <= MaxStore
      /\ ioOk \/ r.saves > 0
      /\ SetStore(r.store)
      /\ UNCHANGED threadVars
      /\ last' = [op |-> "add_peer_profile", profile |-> p, skip |-> skip,
                  ioOk |-> ioOk, ret |-> r.ret, saves |-> r.saves]

\* add_peer_profile(profile, skip_deduplication) with either flag
AddPeerProfile == AddPeerProfileCall(BOOLEAN)

\* add_peer_profile(profile), with deduplication
AddPeerProfileDedup == AddPeerProfileCall({FALSE})

AddProfilesBatch ==
  \E profs \in InputBatches, skip \in BOOLEAN, ioOk \in BOOLEAN :
    \E r \in {add_profiles_batch(Store, profs, skip, ioOk)} :
      /\ Len(r.store.embeddings) <= MaxStore
      /\ ioOk \/ r.saves > 0
      /\ SetStore(r.store)
      /\ UNCHANGED threadVars
      /\ last' = [op |-> "add_profiles_batch", profiles |-> profs, skip |-> skip,
                  added_count |-> r.added_count, saves |-> r.saves]

LoadFromJson ==
  \E items \in InputJson, skip \in BOOLEAN, callsOk \in BOOLEAN, ioOk \in BOOLEAN :
    \E r \in {load_from_json(Store, items, skip, callsOk, ioOk)} :
      /\ Len(r.store.embeddings) <= MaxStore
      /\ ioOk \/ r.saves > 0
      /\ SetStore(r.store)
      /\ UNCHANGED threadVars
      /\ last' = [op |-> "load_from_json", items |-> items, skip |-> skip,
                  raised |-> r.raised, saves |-> r.saves]

LoadPersistedData ==
  \E readOk \in BOOLEAN, embFail \in SUBSET (1..Len(file.data)) :
    \E S \in {load_persisted_data(Store, readOk, embFail)} :
      /\ Len(S.embeddings) <= MaxStore
      /\ readOk \/ embFail = {}
      /\ SetStore(S)
      /\ UNCHANGED threadVars
      /\ last' = [op |-> "load_persisted_data"]

AddPeerProfileFromSession ==
  \E text \in InputTexts, enabled \in BOOLEAN, embOk \in BOOLEAN, ioOk \in BOOLEAN :
    \E r \in {add_peer_profile_from_session(Store, enabled, text, "None", "None",
                                            embOk, FreshId(Store), ioOk)} :
      /\ Len(r.store.embeddings) <= MaxStore
      /\ HasFreshId(Store)
      /\ enabled \/ embOk
      /\ ioOk \/ r.saves > 0
      /\ SetStore(r.store)
      /\ UNCHANGED threadVars
      /\ last' = [op |-> "add_peer_profile_from_session", text |-> text,
                  enabled |-> enabled, embOk |-> embOk, ret |-> r.ret, saves |-> r.saves]

Next ==
  \/ AddPeerProfile
  \/ AddProfilesBatch
  \/ LoadFromJson
  \/ LoadPersistedData
  \/ AddPeerProfileFromSession

Spec == Init /\ [][Next]_vars

\* An initially empty store that only receives add_peer_profile calls with
\* skip_deduplication = False.
NextDedup == AddPeerProfileDedup

SpecDedup == Init /\ [][NextDedup]_vars

(***************************************************************************)
(* The store under two threads (api/main.py): the executor thread runs     *)
(* _load_persisted_data statement by statement while the event loop serves *)
(* requests, one handler at a time: add_peer_profile, statement by         *)
(* statement, and get_stats.  The store takes no lock.                     *)
(***************************************************************************)
\* Profiles the event loop adds; their identifiers differ from each other and
\* from those in the persistence file.
ConcProfiles ==
  { PeerProfile("a", <<1, 0>>, TextLongA, "None", "None", "none"),
    PeerProfile("b", <<10, 3>>, TextLongB, "None", "None", "none") }

\* The persistence file the executor thread loads.
ConcFiles ==
  { [exists |-> TRUE, data |-> <<Item("c", TextLongC, "Postdoc")>>],
    [exists |-> TRUE, data |-> <<Item("c", TextLongC, "Postdoc"), Item("g", TextLongB, "None")>>] }

\* get_stats()
get_stats(S) ==
  [op |-> "get_stats",
   total_profiles |-> Len(S.profiles),
   total_embeddings |-> Len(S.embeddings),
   using_faiss |-> S.use_faiss,
   additions_since_save |-> S.additions_since_save]

\* Startup: the store is constructed and _load_persisted_data is handed to
\* the executor.
InitConc ==
  /\ profiles = <<>>
  /\ embeddings = <<>>
  /\ profile_ids = <<>>
  /\ index = [built |-> FALSE, vecs |-> <<>>]
  /\ use_faiss \in BOOLEAN
  /\ additions_since_save = 0
  /\ persisted_data_loaded = FALSE
  /\ file \in ConcFiles
  /\ last = NoCall
  /\ loader = [pc |-> "start", i |-> 0, data |-> <<>>]
  /\ reloader = LoaderIdle
  /\ adder = AdderIdle
  /\ observed = NoObservation

\* Entries the two threads have still to append to the embedding list.
LoaderPending ==
  CASE loader.pc = "start" -> Len(file.data)
    [] loader.pc \in {"put", "append_embedding"} -> Len(loader.data) - loader.i + 1
    [] loader.pc \in {"append_id", "rebuild"} -> Len(loader.data) - loader.i
    [] OTHER -> 0

ReloaderPending ==
  IF reloader.pc \in {"put", "append_embedding"}
    THEN Len(reloader.data) - reloader.i + 1
    ELSE IF reloader.pc \in {"append_id", "rebuild"}
      THEN Len(reloader.data) - reloader.i
      ELSE 0

AdderPending == IF adder.pc \in {"put", "append_embedding"} THEN 1 ELSE 0

\* The profile the loader builds from the record it is at.
LoaderProfile ==
  LET item == loader.data[loader.i]
  IN  PeerProfile(item.profile_id, generate_embedding(item.struggle_text),
                  item.struggle_text, item.academic_stage,
                  item.research_area, item.anonymized_metadata)

\* The loader's move to the next record, or to the end of the loop.
LoaderAdvance ==
  IF loader.i = Len(loader.data)
    THEN [loader EXCEPT !.pc = "finish"]
    ELSE [loader EXCEPT !.pc = "put", !.i = loader.i + 1]

\* _load_persisted_data up to the loop: the flag test, the file test and the read
LoaderStart ==
  /\ loader.pc = "start"
  /\ Len(embeddings) + AdderPending + ReloaderPending + Len(file.data) <= MaxStore
  /\ IF persisted_data_loaded
       THEN loader' = [loader EXCEPT !.pc = "done"]
       ELSE IF file.exists /\ PersistenceLoad(file, TRUE) # <<>>
         THEN loader' = [pc |-> "put", i |-> 1, data |-> PersistenceLoad(file, TRUE)]
         ELSE loader' = [loader EXCEPT !.pc = "finish"]
  /\ UNCHANGED <<storeVars, last, adder, reloader, observed>>

\* self.profiles[profile.profile_id] = profile
LoaderPut ==
  /\ loader.pc = "put"
  /\ profiles' = DictPut(profiles, LoaderProfile)
  /\ loader' = [loader EXCEPT !.pc = "append_embedding"]
  /\ UNCHANGED <<embeddings, profile_ids, index, use_faiss, additions_since_save,
                 persisted_data_loaded, file, last, adder, reloader, observed>>

\* self.embeddings.append(profile.embedding)
LoaderAppendEmbedding ==
  /\ loader.pc = "append_embedding"
  /\ embeddings' = Append(embeddings, LoaderProfile.embedding)
  /\ loader' = [loader EXCEPT !.pc = "append_id"]
  /\ UNCHANGED <<profiles, profile_ids, index, use_faiss, additions_since_save,
                 persisted_data_loaded, file, last, adder, reloader, observed>>

\* self.profile_ids.append(profile.profile_id), and the test for a rebuild
LoaderAppendId ==
  /\ loader.pc = "append_id"
  /\ profile_ids' = Append(profile_ids, LoaderProfile.profile_id)
  /\ loader' = IF loader.i % 3 = 0 \/ loader.i = Len(loader.data)
                 THEN [loader EXCEPT !.pc = "rebuild"]
                 ELSE LoaderAdvance
  /\ UNCHANGED <<profiles, embeddings, index, use_faiss, additions_since_save,
                 persisted_data_loaded, file, last, adder, reloader, observed>>

\* if self.use_faiss and self.embeddings: self._build_faiss_index()
LoaderRebuild ==
  /\ loader.pc = "rebuild"
  /\ SetStore(build_faiss_index(Store))
  /\ loader' = LoaderAdvance
  /\ UNCHANGED <<last, adder, reloader, observed>>

\* self._persisted_data_loaded = True
LoaderFinish ==
  /\ loader.pc = "finish"
  /\ persisted_data_loaded' = TRUE
  /\ loader' = [loader EXCEPT !.pc = "done"]
  /\ UNCHANGED <<profiles, embeddings, profile_ids, index, use_faiss,
                 additions_since_save, file, last, adder, reloader, observed>>

\* add_peer_profile(profile) up to the first write: validation and the
\* duplicate test; a rejected profile ends the call.
AdderStart ==
  /\ adder.pc = "idle"
  /\ Len(embeddings) + LoaderPending + 1 <= MaxStore
  /\ \E p \in ConcProfiles :
       IF validate_profile(p) /\ ~is_duplicate(Store, p)
         THEN /\ adder' = [pc |-> "put", profile |-> p]
              /\ UNCHANGED last
         ELSE /\ adder' = AdderIdle
              /\ last' = [op |-> "add_peer_profile", profile |-> p, skip |-> FALSE,
                          ret |-> FALSE, saves |-> 0]
  /\ UNCHANGED <<storeVars, loader, reloader, observed>>

\* self.profiles[profile.profile_id] = profile
AdderPut ==
  /\ adder.pc = "put"
  /\ profiles' = DictPut(profiles, adder.profile)
  /\ adder' = [adder EXCEPT !.pc = "append_embedding"]
  /\ UNCHANGED <<embeddings, profile_ids, index, use_faiss, additions_since_save,
                 persisted_data_loaded, file, last, loader, reloader, observed>>

\* self.embeddings.append(profile.embedding)
AdderAppendEmbedding ==
  /\ adder.pc = "append_embedding"
  /\ embeddings' = Append(embeddings, adder.profile.embedding)
  /\ adder' = [adder EXCEPT !.pc = "append_id"]
  /\ UNCHANGED <<profiles, profile_ids, index, use_faiss, additions_since_save,
                 persisted_data_loaded, file, last, loader, reloader, observed>>

\* self.profile_ids.append(profile.profile_id)
AdderAppendId ==
  /\ adder.pc = "append_id"
  /\ profile_ids' = Append(profile_ids, adder.profile.profile_id)
  /\ adder' = [adder EXCEPT !.pc = "rebuild"]
  /\ UNCHANGED <<profiles, embeddings, index, use_faiss, additions_since_save,
                 persisted_data_loaded, file, last, loader, reloader, observed>>

\* if self.use_faiss and self.embeddings: self._build_faiss_index()
AdderRebuild ==
  /\ adder.pc = "rebuild"
  /\ SetStore(build_faiss_index(Store))
  /\ adder' = [adder EXCEPT !.pc = "count"]
  /\ UNCHANGED <<last, loader, reloader, observed>>

\* The counter, the auto-save when it reaches the interval, and return True
AdderCount ==
  /\ adder.pc = "count"
  /\ \E ioOk \in BOOLEAN :
       LET S3 == [Store EXCEPT !.additions_since_save = additions_since_save + 1]
       IN  IF S3.additions_since_save >= AutoSaveInterval
             THEN /\ SetStore([save_to_json(S3, ioOk).store EXCEPT !.additions_since_save = 0])
                  /\ last' = [op |-> "add_peer_profile", profile |-> adder.profile,
                              skip |-> FALSE, ret |-> TRUE, saves |-> 1]
             ELSE /\ ioOk
                  /\ SetStore(S3)
                  /\ last' = [op |-> "add_peer_profile", profile |-> adder.profile,
                              skip |-> FALSE, ret |-> TRUE, saves |-> 0]
  /\ adder' = AdderIdle
  /\ UNCHANGED <<loader, reloader, observed>>

\* GET /v1/vector-store/stats on the event loop, between two other handlers
GetStats ==
  /\ adder.pc = "idle"
  /\ observed' = get_stats(Store)
  /\ UNCHANGED <<storeVars, last, loader, adder, reloader>>

NextConc ==
  \/ LoaderStart
  \/ LoaderPut
  \/ LoaderAppendEmbedding
  \/ LoaderAppendId
  \/ LoaderRebuild
  \/ LoaderFinish
  \/ AdderStart
  \/ AdderPut
  \/ AdderAppendEmbedding
  \/ AdderAppendId
  \/ AdderRebuild
  \/ AdderCount
  \/ GetStats

SpecConc == InitConc /\ [][NextConc]_vars

(***************************************************************************)
(* POST /v1/vector-store/reload (api/main.py) while the executor thread    *)
(* loads: the handler calls _load_persisted_data on the event loop, which  *)
(* is free while initialize_background awaits the executor.                *)
(***************************************************************************)
\* The profile the reload builds from the record it is at.
ReloaderProfile ==
  LET item == reloader.data[reloader.i]
  IN  PeerProfile(item.profile_id, generate_embedding(item.struggle_text),
                  item.struggle_text, item.academic_stage,
                  item.research_area, item.anonymized_metadata)

\* The reload's move to the next record, or to the end of the loop.
ReloaderAdvance ==
  IF reloader.i = Len(reloader.data)
    THEN [reloader EXCEPT !.pc = "finish"]
    ELSE [reloader EXCEPT !.pc = "put", !.i = reloader.i + 1]

\* A reload request: _load_persisted_data up to the loop.  A read that fails
\* gives no data.
ReloaderStart ==
  /\ reloader.pc \in {"idle", "done"}
  /\ persisted_data_loaded \/ Len(embeddings) + LoaderPending + Len(file.data) <= MaxStore
  /\ \E readOk \in BOOLEAN :
       IF persisted_data_loaded
         THEN /\ readOk
              /\ reloader' = [reloader EXCEPT !.pc = "done"]
         ELSE IF file.exists /\ PersistenceLoad(file, readOk) # <<>>
           THEN reloader' = [pc |-> "put", i |-> 1, data |-> PersistenceLoad(file, readOk)]
           ELSE reloader' = [reloader EXCEPT !.pc = "finish"]
  /\ UNCHANGED <<storeVars, last, loader, adder, observed>>

\* self.profiles[profile.profile_id] = profile
ReloaderPut ==
  /\ reloader.pc = "put"
  /\ profiles' = DictPut(profiles, ReloaderProfile)
  /\ reloader' = [reloader EXCEPT !.pc = "append_embedding"]
  /\ UNCHANGED <<embeddings, profile_ids, index, use_faiss, additions_since_save,
                 persisted_data_loaded, file, last, loader, adder, observed>>

\* self.embeddings.append(profile.embedding)
ReloaderAppendEmbedding ==
  /\ reloader.pc = "append_embedding"
  /\ embeddings' = Append(embeddings, ReloaderProfile.embedding)
  /\ reloader' = [reloader EXCEPT !.pc = "append_id"]
  /\ UNCHANGED <<profiles, profile_ids, index, use_faiss, additions_since_save,
                 persisted_data_loaded, file, last, loader, adder, observed>>

\* self.profile_ids.append(profile.profile_id), and the test for a rebuild
ReloaderAppendId ==
  /\ reloader.pc = "append_id"
  /\ profile_ids' = Append(profile_ids, ReloaderProfile.profile_id)
  /\ reloader' = IF reloader.i % 3 = 0 \/ reloader.i = Len(reloader.data)
                   THEN [reloader EXCEPT !.pc = "rebuild"]
                   ELSE ReloaderAdvance
  /\ UNCHANGED <<profiles, embeddings, index, use_faiss, additions_since_save,
                 persisted_data_loaded, file, last, loader, adder, observed>>

\* if self.use_faiss and self.embeddings: self._build_faiss_index()
ReloaderRebuild ==
  /\ reloader.pc = "rebuild"
  /\ SetStore(build_faiss_index(Store))
  /\ reloader' = ReloaderAdvance
  /\ UNCHANGED <<last, loader, adder, observed>>

\* self._persisted_data_loaded = True, and the handler's answer
ReloaderFinish ==
  /\ reloader.pc = "finish"
  /\ persisted_data_loaded' = TRUE
  /\ reloader' = [reloader EXCEPT !.pc = "done"]
  /\ UNCHANGED <<profiles, embeddings, profile_ids, index, use_faiss,
                 additions_since_save, file, last, loader, adder, observed>>

NextReload ==
  \/ LoaderStart
  \/ LoaderPut
  \/ LoaderAppendEmbedding
  \/ LoaderAppendId
  \/ LoaderRebuild
  \/ LoaderFinish
  \/ ReloaderStart
  \/ ReloaderPut
  \/ ReloaderAppendEmbedding
  \/ ReloaderAppendId
  \/ ReloaderRebuild
  \/ ReloaderFinish

SpecReload == InitConc /\ [][NextReload]_vars

(***************************************************************************)
(* Keywords.  `kw in message.lower()` is a substring test; KeywordsIn      *)
(* lists, for each word of the model's texts, the keywords that occur in   *)
(* it.  No text of the model holds a keyword that spans two words.         *)
(***************************************************************************)
KeywordsIn(w) ==
  CASE w = "struggling" -> {"struggling"}
    [] w = "hard" -> {"hard"}
    [] w = "alone" -> {"alone"}
    [] w = "grant" -> {"grant"}
    [] w = "post" -> {"post"}
    [] w = "postdoc" -> {"post", "postdoc"}
    [] w = "code" -> {"code"}
    [] w = "happy" -> {"happy"}
    [] w = "learned" -> {"learned"}
    [] w = "research" -> {"search"}
    [] OTHER -> {}

\* any(kw in text.lower() for kw in keywords)
ContainsAny(t, keywords) ==
  \E i \in 1..Len(t) : KeywordsIn(t[i]) \cap keywords # {}

\* Messages a user sends.
MsgGrant == <<"grant", " ", "experiment">>
MsgPost == <<"post", " ", "experiment">>
MsgLearned == <<"learned", " ", "experiment">>

(***************************************************************************)
(* IntentClassifier (orchestration/intent_classifier.py).                  *)
(***************************************************************************)
grant_keywords ==
  {"grant proposal", "grant", "proposal", "research plan", "feedback on",
   "review my", "critique", "mentorship", "mentor"}
scribe_keywords ==
  {"post", "draft", "help me draft", "create a post", "write a post", "shareable",
   "public", "linkedin", "social media", "announce", "acceptance", "published",
   "share my", "share the", "news"}
technical_keywords ==
  {"semantic", "search", "debug", "agentic", "system", "code", "implementation",
   "algorithm", "method", "technique"}
positive_keywords ==
  {"swim", "talked", "discussed", "learned", "excited", "happy", "great", "good"}
emotional_keywords ==
  {"struggling", "failed", "frustrated", "anxious", "worried", "stressed",
   "difficult", "hard"}
fallback_keywords == {"struggling", "failed", "frustrated", "anxious", "worried"}

\* The answers of the language model to the intent prompt; "raise" is a call
\* that fails, "none" a call that returns without text (response.text is
\* None).
LlmResponses ==
  {"technical", "neutral", "grant", "shareable", "emotional", "unclear", "raise",
   "none"}

\* The call returned a text: response.lower() does not raise
ReturnsText(response) == response \notin {"raise", "none"}

\* The label read from the model's answer; emotional when none is found
LabelOf(response) ==
  CASE response = "technical" -> "technical"
    [] response \in {"positive", "neutral"} -> "positive"
    [] response \in {"grant", "proposal"} -> "grant"
    [] response = "shareable" -> "shareable"
    [] OTHER -> "emotional"

\* classify with the share keywords tested before the grant keywords
classify_share_first(message, response) ==
  IF ~ReturnsText(response)
    THEN IF ContainsAny(message, fallback_keywords) THEN "emotional" ELSE "technical"
    ELSE IF ContainsAny(message, scribe_keywords) THEN "shareable"
    ELSE IF ContainsAny(message, grant_keywords) THEN "grant"
    ELSE IF ContainsAny(message, technical_keywords)
              /\ ~ContainsAny(message, emotional_keywords) THEN "technical"
    ELSE IF ContainsAny(message, positive_keywords)
              /\ ~ContainsAny(message, emotional_keywords) THEN "positive"
    ELSE LabelOf(response)

\* classify(message)["intent"]
classify(message, response) ==
  IF ~ReturnsText(response)
    THEN IF ContainsAny(message, fallback_keywords) THEN "emotional" ELSE "technical"
    ELSE IF ContainsAny(message, grant_keywords) THEN "grant"
    ELSE IF ContainsAny(message, scribe_keywords) THEN "shareable"
    ELSE IF ContainsAny(message, technical_keywords)
              /\ ~ContainsAny(message, emotional_keywords) THEN "technical"
    ELSE IF ContainsAny(message, positive_keywords)
              /\ ~ContainsAny(message, emotional_keywords) THEN "positive"
    ELSE LabelOf(response)

\* get_agent_mode(intent)
get_agent_mode(intent) ==
  CASE intent = "emotional" -> "vent"
    [] intent = "technical" -> "pi"
    [] intent = "positive" -> "scribe"
    [] intent = "grant" -> "pi"
    [] intent = "shareable" -> "scribe"
    [] OTHER -> "vent"

(***************************************************************************)
(* search_similar (services/vector_search_local.py) and the Semantic       *)
(* Matchmaker (agents/semantic_matchmaker.py).                             *)
(***************************************************************************)
\* find_similar_peers: top_k = 3, threshold = 0.7 = MatchNum / MatchDen
MatchTopK == 3
MatchNum == 7
MatchDen == 10

\* cosine(q, a) >= cosine(q, b), for vectors with dot products >= 0
CloserOrEqual(q, a, b) ==
  Dot(q, a) * Dot(q, a) * Dot(b, b) >= Dot(q, b) * Dot(q, b) * Dot(a, a)

\* The positions in cand by descending similarity to q; equal ones in list order
RECURSIVE BestFirst(_, _, _)
BestFirst(q, vecs, cand) ==
  IF cand = {}
    THEN <<>>
    ELSE LET best == CHOOSE i \in cand :
                       \A j \in cand :
                         \/ ~CloserOrEqual(q, vecs[j], vecs[i])
                         \/ (CloserOrEqual(q, vecs[i], vecs[j]) /\ i <= j)
         IN  <<best>> \o BestFirst(q, vecs, cand \ {best})

FirstK(s, k) == SubSeq(s, 1, IF Len(s) < k THEN Len(s) ELSE k)

MatchResult(S, idx) ==
  [profile_id |-> S.profile_ids[idx],
   match_reason |-> Get(S.profiles, S.profile_ids[idx]).struggle_text]

\* The results for a list of positions
Results(S, top) == [k \in 1..Len(top) |-> MatchResult(S, top[k])]

\* _search_cosine(query_embedding, top_k, threshold)
search_cosine(S, q, top_k, num, den) ==
  Results(S, FirstK(BestFirst(q, S.embeddings,
                              {i \in 1..Len(S.embeddings) :
                                 CosSimGE(q, S.embeddings[i], num, den)}),
                    top_k))

\* The results for the positions of near that reach the threshold and lie
\* within the list of identifiers
RECURSIVE Matches(_, _, _, _, _)
Matches(S, q, near, num, den) ==
  IF near = <<>> THEN <<>>
  ELSE IF CosSimGE(q, S.index.vecs[Head(near)], num, den) /\ Head(near) <= Len(S.profile_ids)
    THEN <<MatchResult(S, Head(near))>> \o Matches(S, q, Tail(near), num, den)
    ELSE Matches(S, q, Tail(near), num, den)

\* _search_faiss(query_embedding, top_k, threshold): the min(top_k,
\* len(profiles)) nearest vectors of the index, those below the threshold or
\* beyond the list of identifiers dropped
search_faiss(S, q, top_k, num, den) ==
  Matches(S, q,
          FirstK(BestFirst(q, S.index.vecs, 1..Len(S.index.vecs)),
                 IF top_k < Len(S.profiles) THEN top_k ELSE Len(S.profiles)),
          num, den)

\* search_similar(query_text, top_k, threshold)
search_similar(S, query_text, top_k, num, den) ==
  IF S.embeddings = <<>>
    THEN <<>>
    ELSE LET q == generate_embedding(query_text)
         IN  IF S.use_faiss /\ S.index.built
               THEN search_faiss(S, q, top_k, num, den)
               ELSE search_cosine(S, q, top_k, num, den)

\* search_similar(query_text, top_k, threshold) as its caller sees it: the
\* embedding call of line 121 is made outside any try, so its exception
\* leaves search_similar; embOk is whether the embedding service answers.
search_similar_call(S, query_text, top_k, num, den, embOk) ==
  IF S.embeddings = <<>>
    THEN [raised |-> FALSE, ret |-> <<>>]
    ELSE IF ~embOk
      THEN [raised |-> TRUE, ret |-> <<>>]
      ELSE [raised |-> FALSE, ret |-> search_similar(S, query_text, top_k, num, den)]

\* is_emotional_struggle(message)
struggle_keywords ==
  {"struggling", "failed", "frustrated", "anxious", "worried", "stressed",
   "difficult", "hard", "imposter", "alone", "isolated", "rejected",
   "disappointed", "overwhelmed", "burnout", "toxic"}
is_emotional_struggle(message) == ContainsAny(message, struggle_keywords)

\* The dict process returns for the matches found: the suggestion text of
\* format_match_suggestion and the data of get_matches_data
match_result(matches) ==
  IF matches # <<>>
    THEN [text |-> <<"peer match suggestion">>, matches |-> matches]
    ELSE [text |-> <<>>, matches |-> <<>>]

\* SemanticMatchmakerAgent.process(message, session, force); embOk is whether
\* the embedding service answers (find_similar_peers returns [] when the
\* search raises).
matchmaker_process(S, message, force, embOk) ==
  IF ~force /\ ~is_emotional_struggle(message)
    THEN match_result(<<>>)
    ELSE IF embOk \/ S.embeddings = <<>>
      THEN match_result(search_similar(S, message, MatchTopK, MatchNum, MatchDen))
      ELSE match_result(<<>>)

(***************************************************************************)
(* The agents as process_message sees them.  A text is a sequence of       *)
(* parts; "" is <<>>.                                                      *)
(***************************************************************************)
\* guardian_report = None
NoReport == [risk_level |-> "None", blocked |-> FALSE, concerns |-> <<>>, suggestions |-> <<>>]

(***************************************************************************)
(* GuardianAgent.scan_content (agents/guardian.py).  The reply of the      *)
(* generative model is a text with at most one JSON block holding a        *)
(* "risk_level" key, followed by prose; the value of risk_level is kept    *)
(* character by character, as written between the quotes.                  *)
(***************************************************************************)
\* A list entry of the JSON block: a string, or a value that is no string.
Str(text) == [is_str |-> TRUE, text |-> text, about |-> "other"]
NotStr == [is_str |-> FALSE, text |-> "[]", about |-> "other"]

\* {"risk_level": "...", "concerns": ..., "suggestions": [...]}; valid is
\* whether json.loads accepts the block, concerns_is_list whether the value
\* of "concerns" is a list.
JsonBlock(valid, risk_level, concerns_is_list, concerns, suggestions) ==
  [valid |-> valid, risk_level |-> risk_level, concerns_is_list |-> concerns_is_list,
   concerns |-> concerns, suggestions |-> suggestions]

TextReply(block, prose) == [kind |-> "text", block |-> block, prose |-> prose]

CharsHIGH == <<"H", "I", "G", "H">>
CharsMEDIUM == <<"M", "E", "D", "I", "U", "M">>
CharsLOW == <<"L", "O", "W">>

\* What gemini_service.generate_text does for the scan prompt, by name: it
\* raises, returns None (a reply without text), or returns a text.
GuardianReply(verdict) ==
  CASE verdict = "raise" -> [kind |-> "raise"]
    [] verdict = "none" -> [kind |-> "none"]
    [] verdict = "LOW" ->
         TextReply(<<JsonBlock(TRUE, CharsLOW, TRUE, <<>>, <<>>)>>, <<>>)
    [] verdict = "MEDIUM" ->
         TextReply(<<JsonBlock(TRUE, CharsMEDIUM, TRUE, <<>>, <<>>)>>, <<>>)
    [] verdict = "HIGH" ->
         TextReply(<<JsonBlock(TRUE, CharsHIGH, TRUE,
                               <<Str("names a reagent")>>, <<Str("remove the name")>>)>>, <<>>)
    [] verdict = "high, lower case" ->
         TextReply(<<JsonBlock(TRUE, <<"h", "i", "g", "h">>, FALSE, <<>>, <<>>)>>, <<>>)
    [] verdict = "HIGH, escaped" ->
         TextReply(<<JsonBlock(TRUE, <<"\\u0048", "I", "G", "H">>, TRUE, <<>>, <<>>)>>,
                   <<"otherwise", "medium">>)
    [] verdict = "HIGH, malformed" ->
         TextReply(<<JsonBlock(FALSE, CharsHIGH, TRUE, <<Str("names a reagent")>>, <<>>)>>, <<>>)
    [] verdict = "LOW, nested list" ->
         TextReply(<<JsonBlock(TRUE, CharsLOW, TRUE, <<NotStr>>, <<>>)>>, <<>>)
    [] verdict = "prose, high" -> TextReply(<<>>, <<"risk", "high", "issue">>)
    [] verdict = "prose, medium" -> TextReply(<<>>, <<"medium", "risk">>)
    [] OTHER -> TextReply(<<>>, <<"fine">>)

\* json.loads on one character of a string value: H is H
json_decode(c) == IF c = "\\u0048" THEN "H" ELSE c

\* str.upper() on one character as written
upper(c) ==
  CASE c = "h" -> "H" [] c = "i" -> "I" [] c = "g" -> "G" [] c = "m" -> "M"
    [] c = "e" -> "E" [] c = "d" -> "D" [] c = "u" -> "U" [] c = "l" -> "L"
    [] c = "o" -> "O" [] c = "w" -> "W" [] c = "\\u0048" -> "\\U0048"
    [] OTHER -> c

\* sub in s
Contains(s, sub) ==
  \E i \in 1..(Len(s) - Len(sub) + 1) : SubSeq(s, i, i + Len(sub) - 1) = sub

\* The words of the lists of the block and of the prose, as written
ReplyWords(reply) ==
  IF reply.block = <<>> THEN reply.prose
  ELSE [k \in 1..Len(reply.block[1].concerns) |-> reply.block[1].concerns[k].text]
         \o [k \in 1..Len(reply.block[1].suggestions) |-> reply.block[1].suggestions[k].text]
         \o reply.prose

\* kw in response.upper(), for kw a sequence of characters
InResponseUpper(reply, kw, word) ==
  \/ reply.block # <<>>
       /\ Contains([k \in 1..Len(reply.block[1].risk_level) |-> upper(reply.block[1].risk_level[k])], kw)
  \/ \E k \in 1..Len(ReplyWords(reply)) : ReplyWords(reply)[k] = word

\* "concern" in response.lower() or "issue" in response.lower(): the block
\* carries the key "concerns"
MentionsConcern(reply) ==
  \/ reply.block # <<>>
  \/ \E k \in 1..Len(reply.prose) : reply.prose[k] \in {"concern", "concerns", "issue"}

\* The words that introduce a PI name, a reagent name, an institution name
DetectionWords(category) ==
  CASE category = "pi_names" -> {"Professor", "professor", "Dr.", "PI"}
    [] category = "reagent_names" -> {"reagent", "antibody", "compound"}
    [] OTHER -> {"university", "University", "lab", "institute"}

\* re.findall(pattern, content, re.IGNORECASE) for a category, duplicates
\* dropped: the words that follow an introducing word and white space
Detected(content, category) ==
  {content[i + 2] : i \in {j \in 1..(Len(content) - 2) :
                            /\ content[j] \in DetectionWords(category)
                            /\ content[j + 1] = " "}}

\* The concern written for the detections of a category
DetectedConcern(category) ==
  [is_str |-> TRUE, about |-> category,
   text |-> CASE category = "pi_names" -> "Detected PI name(s)"
              [] category = "reagent_names" -> "Detected reagent name(s)"
              [] OTHER -> "Detected institution name(s)"]

\* The local variables of scan_content before the reply is read
ScanStart ==
  [risk_level |-> "LOW", concerns |-> <<>>, blocked |-> FALSE, suggestions |-> <<>>,
   detected |-> {}, raised |-> <<>>]

\* Try to parse JSON response: lines 80-103; a block json.loads rejects is
\* passed over
parse_json(g, reply) ==
  IF reply.block = <<>> THEN g
  ELSE IF ~reply.block[1].valid THEN [g EXCEPT !.raised = @ \o <<"json.loads">>]
  ELSE
    [g EXCEPT
       !.risk_level =
          IF Contains([k \in 1..Len(reply.block[1].risk_level) |->
                          upper(json_decode(reply.block[1].risk_level[k]))], CharsHIGH)
            THEN "HIGH"
            ELSE IF Contains([k \in 1..Len(reply.block[1].risk_level) |->
                                 upper(json_decode(reply.block[1].risk_level[k]))], CharsMEDIUM)
              THEN "MEDIUM" ELSE @,
       !.blocked =
          IF Contains([k \in 1..Len(reply.block[1].risk_level) |->
                          upper(json_decode(reply.block[1].risk_level[k]))], CharsHIGH)
            THEN TRUE ELSE @,
       !.concerns = IF reply.block[1].concerns_is_list THEN reply.block[1].concerns ELSE @,
       !.suggestions = reply.block[1].suggestions]

\* The detections of one category: lines 116-131
detect(g, content, category) ==
  IF Detected(content, category) # {}
    THEN [g EXCEPT !.detected = @ \cup {category},
                   !.concerns = Append(@, DetectedConcern(category))]
    ELSE g

\* if not concerns and ("concern" in ... or "issue" in ...): lines 133-134
generic_concern(g, reply) ==
  IF g.concerns = <<>> /\ MentionsConcern(reply)
    THEN [g EXCEPT !.concerns = <<Str("Potential IP-sensitive content detected")>>]
    ELSE g

\* Fallback: simple text parsing, lines 105-134
fallback(g, reply, content) ==
  IF g.concerns # <<>> THEN g
  ELSE generic_concern(
         detect(detect(detect(
           [g EXCEPT
              !.risk_level = IF InResponseUpper(reply, CharsHIGH, "high") THEN "HIGH"
                             ELSE IF InResponseUpper(reply, CharsMEDIUM, "medium") THEN "MEDIUM"
                             ELSE @,
              !.blocked = IF InResponseUpper(reply, CharsHIGH, "high") THEN TRUE ELSE @],
           content, "pi_names"), content, "reagent_names"), content, "institutions"),
         reply)

\* if blocked and not suggestions: lines 136-137
suggest(g) ==
  IF g.blocked /\ g.suggestions = <<>>
    THEN [g EXCEPT !.suggestions = <<Str("Remove specific reagent names, sequences, or institution identifiers")>>]
    ELSE g

\* One category put first: lines 149-157
put_first(concerns, detected, category) ==
  IF category \in detected
    THEN <<DetectedConcern(category)>> \o SelectSeq(concerns, LAMBDA c : c.about # category)
    ELSE concerns

Texts(entries) == [k \in 1..Len(entries) |-> entries[k].text]

\* The handler of lines 162-170 that blocks the content
scan_error_blocking(g, error) ==
  [report |-> [risk_level |-> "MEDIUM", blocked |-> TRUE,
               concerns |-> <<"Error during scan">>,
               suggestions |-> <<"Please review content manually">>],
   raised |-> g.raised \o <<error>>, handled |-> TRUE, propagated |-> FALSE]

\* except Exception: lines 162-170
scan_error(g, error) ==
  [report |-> [risk_level |-> "MEDIUM", blocked |-> FALSE,
               concerns |-> <<"Error during scan">>,
               suggestions |-> <<"Please review content manually">>],
   raised |-> g.raised \o <<error>>, handled |-> TRUE, propagated |-> FALSE]

\* GuardianReport(...) and the detected items put first: lines 140-160; the
\* model validation rejects a list entry that is no string
build_report(g) ==
  IF \E k \in 1..Len(g.concerns \o g.suggestions) : ~(g.concerns \o g.suggestions)[k].is_str
    THEN scan_error(g, "GuardianReport")
    ELSE [report |-> [risk_level |-> g.risk_level, blocked |-> g.blocked,
                      concerns |-> Texts(put_first(put_first(put_first(
                                      g.concerns, g.detected, "pi_names"),
                                      g.detected, "reagent_names"),
                                      g.detected, "institutions")),
                      suggestions |-> Texts(g.suggestions)],
          raised |-> g.raised, handled |-> FALSE, propagated |-> FALSE]

\* scan_content(content) on a reply: the report, the exceptions raised on the
\* way, whether the handler of line 162 ran, whether one left the call.
scan(content, reply) ==
  CASE reply.kind = "raise" -> scan_error(ScanStart, "generate_text")
    [] reply.kind = "none" -> scan_error(ScanStart, "re.search")
    [] OTHER -> build_report(suggest(fallback(parse_json(ScanStart, reply), reply, content)))

\* GuardianAgent.scan_content(content): verdict names what the generative
\* model does.
scan_content(content, verdict) == scan(content, GuardianReply(verdict)).report

\* The keywords of ScribeAgent.process and detect_shareable_moment
scribe_request_keywords ==
  {"post", "draft", "help me draft", "create a post", "write a post", "shareable",
   "public", "linkedin", "social media", "announce", "acceptance", "published",
   "share my", "share the", "news"}
shareable_moment_keywords ==
  {"learned", "realized", "understood", "breakthrough", "finally worked",
   "figured out", "resolved", "overcame"}

\* detect_shareable_moment over the text of the last five messages of the session
detect_shareable_moment(session) ==
  \E k \in 1..Len(session) :
    k > Len(session) - 5 /\ ContainsAny(session[k], shareable_moment_keywords)

\* ScribeAgent.process(message, session): "" unless a post is asked for or the
\* session holds a shareable moment; draft is what the model returns for the
\* post: "text", "empty", or "raise" (draft_social_content then falls back on
\* a fixed post).
scribe_process(message, session, draft) ==
  IF ~ContainsAny(message, scribe_request_keywords) /\ ~detect_shareable_moment(session)
    THEN <<>>
    ELSE CASE draft = "text"  -> <<"The Scribe has drafted a post for you:", "post">>
           [] draft = "raise" -> <<"The Scribe has drafted a post for you:", "fallback post">>
           [] OTHER           -> <<>>

\* What VentValidatorAgent.process returns: a VentResponse, the fixed
\* sentence of its exception handler, or whatever generate_structured handed
\* back (None).
VentOutputs == {"VentResponse", "str", "None"}

\* What PISimulatorAgent.process returns: the text of the reply, possibly
\* with a metadata block, or None (response.text of a reply without text).
PiOutputs ==
  { [is_none |-> FALSE, text |-> <<"feedback">>],
    [is_none |-> FALSE, text |-> <<"feedback", " ", "[[CLARITY_SCORE]] {json}">>],
    [is_none |-> FALSE, text |-> <<"feedback", " ", "[[CLARITY_SCORE]] {bad json}">>],
    [is_none |-> FALSE, text |-> <<"[[EMOTIONAL_ANALYSIS]] {json}", " ", "feedback">>],
    [is_none |-> TRUE, text |-> <<>>] }

Remove(t, part) == SelectSeq(t, LAMBDA x : x # part)

\* The marker blocks of the model's texts: which marker pair bounds the part
\* (the match is case-insensitive), what lies between the markers once the
\* code fence is taken off, and the keys of the JSON object when it loads.
BlockOf(part) ==
  CASE part = "[[EMOTIONAL_ANALYSIS]] {json}"
         -> [type |-> "EMOTIONAL_ANALYSIS", json |-> "object",
             keys |-> {"emotional_spectrum", "emotional_intensity", "grounding_technique"}]
    [] part = "[[emotional_analysis]] fenced {json}"
         -> [type |-> "EMOTIONAL_ANALYSIS", json |-> "object",
             keys |-> {"emotional_spectrum", "emotional_intensity", "grounding_technique"}]
    [] part = "[[EMOTIONAL_ANALYSIS]] {bad json}"
         -> [type |-> "EMOTIONAL_ANALYSIS", json |-> "invalid", keys |-> {}]
    [] part = "[[EMOTIONAL_ANALYSIS]] no json"
         -> [type |-> "EMOTIONAL_ANALYSIS", json |-> "absent", keys |-> {}]
    [] part = "[[CLARITY_SCORE]] {json}"
         -> [type |-> "CLARITY_SCORE", json |-> "object",
             keys |-> {"clarity", "logic", "focus"}]
    [] part = "[[CLARITY_SCORE]] {other json}"
         -> [type |-> "CLARITY_SCORE", json |-> "object", keys |-> {"note"}]
    [] part = "[[CLARITY_SCORE]] {bad json}"
         -> [type |-> "CLARITY_SCORE", json |-> "invalid", keys |-> {}]
    [] part = "[[CLARITY_SCORE]] no json"
         -> [type |-> "CLARITY_SCORE", json |-> "absent", keys |-> {}]
    [] OTHER -> [type |-> "none", json |-> "none", keys |-> {}]

\* re.search(pattern, text): the position of the first block of the type, 0
\* when there is none
FirstBlock(t, type) ==
  IF \E i \in 1..Len(t) : BlockOf(t[i]).type = type
    THEN CHOOSE i \in 1..Len(t) :
           /\ BlockOf(t[i]).type = type
           /\ \A j \in 1..(i - 1) : BlockOf(t[j]).type # type
    ELSE 0

\* The metadata fields a block's JSON object gives: all of its keys for the
\* emotional analysis, the three renamed scores for the clarity score.
BlockFields(type, keys) ==
  IF type = "EMOTIONAL_ANALYSIS"
    THEN keys
    ELSE {CASE k = "clarity" -> "clarity_score"
            [] k = "logic" -> "logic_score"
            [] OTHER -> "critique_focus" : k \in keys \cap {"clarity", "logic", "focus"}}

\* parse_block with the block left in the text
parse_block_keep(r, type) ==
  IF FirstBlock(r.clean_response, type) = 0
    THEN r
    ELSE IF BlockOf(r.clean_response[FirstBlock(r.clean_response, type)]).json = "invalid"
      THEN r
      ELSE [r EXCEPT
              !.metadata = @ \cup
                BlockFields(type,
                  BlockOf(r.clean_response[FirstBlock(r.clean_response, type)]).keys)]

\* One `if match:` step of _parse_agent_response on r = the metadata and the
\* clean text so far.  json.loads raising leaves the try block before the
\* line that takes the block out of the text.
parse_block(r, type) ==
  IF FirstBlock(r.clean_response, type) = 0
    THEN r
    ELSE IF BlockOf(r.clean_response[FirstBlock(r.clean_response, type)]).json = "invalid"
      THEN r
      ELSE [metadata |-> r.metadata \cup
              BlockFields(type,
                BlockOf(r.clean_response[FirstBlock(r.clean_response, type)]).keys),
            clean_response |->
              Strip(Remove(r.clean_response,
                           r.clean_response[FirstBlock(r.clean_response, type)]))]

\* _parse_agent_response(response) for a str: the emotional analysis block,
\* then the clarity score block of what is left.
parse_agent_response(response) ==
  parse_block(parse_block([metadata |-> {}, clean_response |-> response],
                          "EMOTIONAL_ANALYSIS"),
              "CLARITY_SCORE")

\* str(TypeError) of re.search on None
TypeErrorText == <<"expected", " ", "string", " ", "or", " ", "bytes-like", " ", "object">>

(***************************************************************************)
(* AgentOrchestrator (orchestration/agent_orchestrator.py).                *)
(***************************************************************************)
\* The envelope process_message starts from.
EmptyResponses ==
  [main_response |-> <<>>, peer_matches |-> <<>>, social_draft |-> <<>>,
   guardian_report |-> NoReport,
   agent_metadata |-> [keys |-> {}, matches |-> <<>>],
   agent_used |-> ""]

\* _extract_struggle_metadata(message, session)["academic_stage"]
extract_academic_stage(message) ==
  IF ContainsAny(message, {"postdoc", "post-doc", "post doc"}) THEN "Postdoc" ELSE "None"

\* A call in progress: the envelope, the store, the calls made so far and
\* whether an exception is on its way to the handler.
Running(R, S, calls) ==
  [responses |-> R, store |-> S, calls |-> calls, raised |-> FALSE, error |-> <<>>]

\* _capture_user_struggle(message, session, intent) during the call t.
\* cfg.has_store is whether the orchestrator was built with a vector store,
\* cfg.enabled is settings.enable_real_user_data.
capture_user_struggle(t, cfg, message, intent, env) ==
  IF ~cfg.enabled \/ ~cfg.has_store
    THEN [t EXCEPT !.calls = @ \o <<"_capture_user_struggle">>]
    ELSE IF intent # "emotional" /\ ~is_emotional_struggle(message)
      THEN [t EXCEPT !.calls = @ \o <<"_capture_user_struggle">>]
      ELSE [t EXCEPT
              !.store = add_peer_profile_from_session(
                          @, TRUE, message, extract_academic_stage(message), "None",
                          env.embOk, env.new_id, env.ioOk).store,
              !.calls = @ \o <<"_capture_user_struggle", "add_peer_profile_from_session">>]

\* The envelope R after the Vent Validator answered
vent_response(R, env) ==
  IF env.vent = "VentResponse"
    THEN [R EXCEPT
            !.main_response = <<"response_text">>,
            !.agent_metadata.keys = {"emotional_spectrum", "emotional_intensity",
                                     "grounding_technique"},
            !.agent_used = "Vent Validator"]
    ELSE [R EXCEPT
            !.main_response = IF env.vent = "str" THEN <<"I'm here to listen.">>
                                                  ELSE <<"None">>,
            !.agent_used = "Vent Validator"]

\* if agent_mode == "vent"
vent_branch(S, cfg, message, env) ==
  capture_user_struggle(
    Running(vent_response(EmptyResponses, env), S, <<"vent_validator.process">>),
    cfg, message, "emotional", env)

\* The envelope after the Matchmaker answered in matchmaker mode
matchmaker_response(m) ==
  IF m.text # <<>>
    THEN [EmptyResponses EXCEPT
            !.main_response = m.text,
            !.agent_used = "Semantic Matchmaker",
            !.agent_metadata.matches = m.matches]
    ELSE [EmptyResponses EXCEPT
            !.main_response = <<"I couldn't find any matching peers for your message.">>,
            !.agent_used = "Semantic Matchmaker"]

\* elif agent_mode == "matchmaker"
matchmaker_branch(S, cfg, message, env) ==
  IF cfg.has_store
    THEN capture_user_struggle(
           Running(matchmaker_response(matchmaker_process(S, message, TRUE, env.embOk)),
                   S, <<"matchmaker.process">>),
           cfg, message, "emotional", env)
    ELSE Running([EmptyResponses EXCEPT
                    !.main_response = <<"Matchmaker service is not available.">>,
                    !.agent_used = "Semantic Matchmaker"], S, <<>>)

\* The envelope R after the PI Simulator's reply was parsed
pi_response(R, parsed) ==
  [R EXCEPT !.main_response = parsed.clean_response,
            !.agent_metadata.keys = parsed.metadata,
            !.agent_used = "PI Simulator"]

\* elif agent_mode == "pi", during the call t: _parse_agent_response raises on
\* None, before the envelope is written
pi_branch(t, env) ==
  IF env.pi.is_none
    THEN [t EXCEPT !.calls = @ \o <<"pi_simulator.process">>,
                   !.raised = TRUE, !.error = TypeErrorText]
    ELSE [t EXCEPT !.responses = pi_response(@, parse_agent_response(env.pi.text)),
                   !.calls = @ \o <<"pi_simulator.process">>]

\* The Guardian Alert banner appended to a blocked draft
Banner(report) == <<"Guardian Alert:", report.risk_level>> \o report.concerns

\* A draft with the banner when its report is blocked
WithBanner(text, report) == IF report.blocked THEN text \o Banner(report) ELSE text

\* The scribe branch without the scan of the draft
scribe_branch_no_scan(t, message, session, env) ==
  IF scribe_process(message, session, env.draft) # <<>>
    THEN [t EXCEPT
            !.responses.main_response = scribe_process(message, session, env.draft),
            !.responses.agent_used = "The Scribe",
            !.calls = @ \o <<"scribe.process">>]
    ELSE [t EXCEPT
            !.responses.main_response = <<"I'm here to help you craft professional content.">>,
            !.responses.agent_used = "The Scribe",
            !.calls = @ \o <<"scribe.process">>]

\* elif agent_mode == "scribe", during the call t
scribe_branch(t, message, session, env) ==
  IF scribe_process(message, session, env.draft) # <<>>
    THEN [t EXCEPT
            !.responses.main_response =
               WithBanner(scribe_process(message, session, env.draft),
                          scan_content(scribe_process(message, session, env.draft), env.verdict)),
            !.responses.agent_used = "The Scribe",
            !.responses.guardian_report =
               scan_content(scribe_process(message, session, env.draft), env.verdict),
            !.calls = @ \o <<"scribe.process", "guardian.scan_content">>]
    ELSE [t EXCEPT
            !.responses.main_response = <<"I'm here to help you craft professional content.">>,
            !.responses.agent_used = "The Scribe",
            !.calls = @ \o <<"scribe.process">>]

\* else: if agent_mode == "auto": the primary routing of the else branch;
\* intent is "None" when no classification ran
primary_pass(t, message, session, agent_mode, intent, env) ==
  IF agent_mode = "auto"
    THEN IF intent \in {"technical", "grant"}
           THEN pi_branch(t, env)
           ELSE IF intent = "shareable"
             THEN scribe_branch(t, message, session, env)
             ELSE [t EXCEPT !.responses = vent_response(@, env),
                            !.calls = @ \o <<"vent_validator.process">>]
    ELSE t

\* The envelope R with the Matchmaker's answer attached as peer_matches
peer_matches_response(R, m) ==
  IF m.text # <<>>
    THEN [R EXCEPT !.peer_matches = m.text, !.agent_metadata.matches = @ \o m.matches]
    ELSE R

\* if self.matchmaker and agent_mode == "auto": the peer-matching pass, not
\* reached when the primary routing raised
peer_matching_pass(t, cfg, message, agent_mode, intent, env) ==
  IF ~t.raised /\ cfg.has_store /\ agent_mode = "auto"
       /\ (intent = "emotional" \/ is_emotional_struggle(message))
    THEN capture_user_struggle(
           [t EXCEPT !.responses = peer_matches_response(
                                     @, matchmaker_process(t.store, message, FALSE, env.embOk)),
                     !.calls = @ \o <<"matchmaker.process">>],
           cfg, message, intent, env)
    ELSE t

\* if agent_mode == "auto" and intent != "shareable": the shareable-content
\* pass, not reached when the primary routing raised
shareable_content_pass(t, message, session, agent_mode, intent, env) ==
  IF ~t.raised /\ agent_mode = "auto" /\ intent # "shareable"
    THEN IF scribe_process(message, session, env.draft) # <<>>
           THEN [t EXCEPT
                   !.responses.social_draft =
                      WithBanner(scribe_process(message, session, env.draft),
                                 scan_content(scribe_process(message, session, env.draft),
                                              env.verdict)),
                   !.responses.guardian_report =
                      scan_content(scribe_process(message, session, env.draft), env.verdict),
                   !.calls = @ \o <<"scribe.process", "guardian.scan_content">>]
           ELSE [t EXCEPT !.calls = @ \o <<"scribe.process">>]
    ELSE t

\* else: the branch taken when agent_mode is none of "vent", "matchmaker",
\* "pi" and "scribe"; it holds the three passes of auto mode.
else_branch(S, cfg, message, session, agent_mode, intent, env) ==
  shareable_content_pass(
    peer_matching_pass(
      primary_pass(Running(EmptyResponses, S, <<>>), message, session, agent_mode, intent, env),
      cfg, message, agent_mode, intent, env),
    message, session, agent_mode, intent, env)

\* The chain of tests on agent_mode; mode is agent_mode after the
\* classification replaced "auto"
route(S, cfg, message, session, mode, intent, env) ==
  CASE mode = "vent" -> vent_branch(S, cfg, message, env)
    [] mode = "matchmaker" -> matchmaker_branch(S, cfg, message, env)
    [] mode = "pi" -> pi_branch(Running(EmptyResponses, S, <<>>), env)
    [] mode = "scribe" -> scribe_branch(Running(EmptyResponses, S, <<>>), message, session, env)
    [] OTHER -> else_branch(S, cfg, message, session, mode, intent, env)

\* An except clause that lets the exception out
handle_exception_reraise(R, error) ==
  [responses |-> R, propagated |-> TRUE]

\* except Exception as e: the message put in main_response
handle_exception(R, error) ==
  [responses |->
     [R EXCEPT !.main_response =
        IF ContainsAny(error, {"api key", "authentication", "gemini"})
          THEN <<"I'm experiencing a configuration issue.">>
          ELSE <<"I encountered an error:">> \o error \o <<"Please check the backend logs.">>],
   propagated |-> FALSE]

\* The end of the call t: return responses, from the try block or from the
\* except clause
return_responses(t, intent, classified) ==
  [responses |-> IF t.raised THEN handle_exception(t.responses, t.error).responses
                             ELSE t.responses,
   propagated |-> t.raised /\ handle_exception(t.responses, t.error).propagated,
   raised |-> t.raised,
   error |-> t.error,
   store |-> t.store,
   intent |-> intent,
   calls |-> classified \o t.calls]

\* process_message(message, session, agent_mode): the envelope returned, the
\* store after the call, the classified intent ("None" outside auto mode),
\* the calls made, whether an exception reached the handler and whether one
\* left the method.
process_message(S, cfg, message, session, agent_mode, env) ==
  IF agent_mode = "auto"
    THEN return_responses(
           route(S, cfg, message, session, get_agent_mode(classify(message, env.label)),
                 classify(message, env.label), env),
           classify(message, env.label), <<"intent_classifier.classify">>)
    ELSE return_responses(route(S, cfg, message, session, agent_mode, "None", env),
                          "None", <<>>)

\* Messages, sessions and modes handed to process_message.
InputMessages == {TextLongA, TextShort, MsgGrant, MsgPost, MsgNeutral}
InputSessions == {<<>>, <<MsgLearned>>}
AgentModes == {"auto", "vent", "matchmaker", "pi", "scribe", "other"}
Verdicts == {"LOW", "MEDIUM", "HIGH", "raise"}
Drafts == {"text", "empty", "raise"}

\* The outcomes a call reads, or the one value given when it reads none.
Read(outcomes, read, unread) == IF read THEN outcomes ELSE {unread}

\* session.messages when a process_message call on the session returns: no
\* statement of process_message, of the agents' process methods or of
\* get_conversation_history assigns to the list or appends to it.
messages_after(session) == session

\* POST /v1/chat: one process_message call.  The outcomes of the external
\* calls are drawn for the branch the call takes.
ProcessMessage ==
  \E message \in InputMessages, agent_mode \in AgentModes :
    \E label \in Read(LlmResponses, agent_mode = "auto", "emotional") :
      LET mode == IF agent_mode = "auto" THEN get_agent_mode(classify(message, label))
                                         ELSE agent_mode
      IN  \E has_store \in Read(BOOLEAN, mode \in {"vent", "matchmaker"}, TRUE),
             session \in Read(InputSessions, mode = "scribe", <<>>) :
            LET drafts == /\ mode = "scribe"
                          /\ \/ ContainsAny(message, scribe_request_keywords)
                             \/ detect_shareable_moment(session)
            IN  \E enabled \in Read(BOOLEAN, has_store /\ mode \in {"vent", "matchmaker"}, FALSE),
                   vent \in Read(VentOutputs, mode = "vent", "VentResponse"),
                   pi \in Read(PiOutputs, mode = "pi", [is_none |-> FALSE, text |-> <<"feedback">>]),
                   draft \in Read(Drafts, drafts, "text") :
                  \E verdict \in Read(Verdicts, drafts /\ draft # "empty", "LOW"),
                     embOk \in Read(BOOLEAN, enabled \/ (has_store /\ mode = "matchmaker"), TRUE),
                     ioOk \in Read(BOOLEAN, enabled /\ additions_since_save + 1 >= AutoSaveInterval, TRUE) :
                    \E r \in {process_message(Store, [has_store |-> has_store, enabled |-> enabled],
                                              message, session, agent_mode,
                                              [label |-> label, vent |-> vent, pi |-> pi,
                                               draft |-> draft, verdict |-> verdict,
                                               embOk |-> embOk, ioOk |-> ioOk,
                                               new_id |-> FreshId(Store)])} :
                      /\ HasFreshId(Store)
                      /\ Len(r.store.embeddings) <= MaxStore
                      /\ SetStore(r.store)
                      /\ UNCHANGED threadVars
                      /\ last' = [op |-> "process_message", message |-> message,
                                  agent_mode |-> agent_mode, has_store |-> has_store,
                                  session |-> session, enabled |-> enabled,
                                  messages |-> messages_after(session),
                                  intent |-> r.intent, responses |-> r.responses,
                                  calls |-> r.calls, raised |-> r.raised,
                                  error |-> r.error,
                                  propagated |-> r.propagated]

\* Texts handed to the Guardian and what the generative model does with the
\* scan prompt.
GuardianContents ==
  { <<"research", " ", "experiment">>,
    <<"Professor", " ", "Smith", " ", "reagent", " ", "X-12">> }
GuardianVerdicts ==
  {"raise", "none", "LOW", "MEDIUM", "HIGH", "high, lower case", "HIGH, escaped",
   "HIGH, malformed", "LOW, nested list", "prose, high", "prose, medium", "prose"}

\* POST /v1/tools/draft-post, step 3: one scan_content call on a draft.
ScanContent ==
  \E content \in GuardianContents, verdict \in GuardianVerdicts :
    \E r \in {scan(content, GuardianReply(verdict))} :
      /\ UNCHANGED storeVars
      /\ UNCHANGED threadVars
      /\ last' = [op |-> "scan_content", content |-> content, verdict |-> verdict,
                  report |-> r.report, raised |-> r.raised, handled |-> r.handled,
                  propagated |-> r.propagated]

\* Messages handed to the intent classifier: the chat messages, and messages
\* whose keywords belong to several of the classifier's lists.
ClassifyMessages ==
  InputMessages \cup
    { <<"grant", " ", "hard">>,
      <<"grant", " ", "post", " ", "code", " ", "happy", " ", "struggling">>,
      <<"post", " ", "hard", " ", "code">>,
      <<"code", " ", "hard">>,
      <<"happy", " ", "experiment">>,
      <<"experiment">> }

\* One classify call (process_message, auto mode, calls it on the message).
Classify ==
  \E message \in ClassifyMessages, response \in LlmResponses :
    /\ UNCHANGED storeVars
    /\ UNCHANGED threadVars
    /\ last' = [op |-> "classify", message |-> message, response |-> response,
                intent |-> classify(message, response)]

\* Replies of the agents handed to _parse_agent_response.
AgentTexts ==
  {o.text : o \in {x \in PiOutputs : ~x.is_none}} \cup
    { <<" ", "feedback", " ">>,
      <<"[[EMOTIONAL_ANALYSIS]] {json}", " ", "[[CLARITY_SCORE]] {json}", " ", "feedback">>,
      <<"[[emotional_analysis]] fenced {json}", " ", "feedback">>,
      <<"[[EMOTIONAL_ANALYSIS]] {bad json}", " ", "feedback">>,
      <<"[[EMOTIONAL_ANALYSIS]] {bad json}", " ", "[[CLARITY_SCORE]] {json}", " ", "feedback">>,
      <<"[[EMOTIONAL_ANALYSIS]] no json", " ", "feedback">>,
      <<"feedback", " ", "[[CLARITY_SCORE]] no json">>,
      <<"feedback", " ", "[[CLARITY_SCORE]] {other json}">> }

\* One _parse_agent_response call on an agent's reply.
ParseAgentResponse ==
  \E response \in AgentTexts :
    \E r \in {parse_agent_response(response)} :
      /\ UNCHANGED storeVars
      /\ UNCHANGED threadVars
      /\ last' = [op |-> "parse_agent_response", response |-> response,
                  metadata |-> r.metadata, clean_response |-> r.clean_response]

NextOrch ==
  \/ ProcessMessage
  \/ ScanContent
  \/ Classify
  \/ ParseAgentResponse

\* The orchestrator on a new store without persistence file.
InitOrch ==
  /\ profiles = <<>>
  /\ embeddings = <<>>
  /\ profile_ids = <<>>
  /\ index = [built |-> FALSE, vecs |-> <<>>]
  /\ use_faiss \in BOOLEAN
  /\ additions_since_save = 0
  /\ persisted_data_loaded = FALSE
  /\ file = [exists |-> FALSE, data |-> <<>>]
  /\ last = NoCall
  /\ loader = LoaderIdle
  /\ reloader = LoaderIdle
  /\ adder = AdderIdle
  /\ observed = NoObservation

SpecOrch == InitOrch /\ [][NextOrch]_vars

(***************************************************************************)
(* Searches on a store filled by add_peer_profile and _load_persisted_data.*)
(***************************************************************************)
\* Query texts, values of top_k and thresholds (num / den) of the searches.
SearchQueries == {TextLongB, TextLongC}
SearchTopKs == {1, 3}
SearchThresholds == {<<MatchNum, MatchDen>>, <<DedupNum, DedupDen>>}

SearchSimilar ==
  \E query_text \in SearchQueries, top_k \in SearchTopKs,
     th \in SearchThresholds, embOk \in BOOLEAN :
    \E r \in {search_similar_call(Store, query_text, top_k, th[1], th[2], embOk)} :
      /\ embOk \/ embeddings # <<>>
      /\ UNCHANGED storeVars
      /\ UNCHANGED threadVars
      /\ last' = [op |-> "search_similar", query_text |-> query_text, top_k |-> top_k,
                  num |-> th[1], den |-> th[2], embOk |-> embOk,
                  raised |-> r.raised, ret |-> r.ret]

NextSearch ==
  \/ AddPeerProfile
  \/ LoadPersistedData
  \/ SearchSimilar

SpecSearch == Init /\ [][NextSearch]_vars

(***************************************************************************)
(* Properties of the vector store.                                         *)
(***************************************************************************)
\* The profile's trimmed struggle_text has the minimum length and its
\* embedding is not empty.
WellFormed(p) ==
  /\ StrLen(Strip(p.struggle_text)) >= min_struggle_length
  /\ p.embedding # <<>>

\* Some embedding of embs is as similar to e as the deduplication threshold.
SimilarToSome(e, embs) ==
  \E i \in 1..Len(embs) : CosSimGE(e, embs[i], DedupNum, DedupDen)

NoSimilarPair(embs) ==
  \A i, j \in 1..Len(embs) :
    i < j => ~CosSimGE(embs[i], embs[j], DedupNum, DedupDen)

\* C7: on an initially empty store that only receives add_peer_profile calls
\* with deduplication, no two stored embeddings are as similar as the
\* deduplication threshold; a call whose profile is that similar to a stored
\* embedding returns False, and a call whose profile is well formed and less
\* similar to every stored embedding returns True and stores the embedding.
C7_DedupKeepsEmbeddingsApart ==
  [][ /\ NoSimilarPair(embeddings')
      /\ SimilarToSome(last'.profile.embedding, embeddings) => ~last'.ret
      /\ (WellFormed(last'.profile) /\ ~SimilarToSome(last'.profile.embedding, embeddings))
           => (last'.ret /\ embeddings' = Append(embeddings, last'.profile.embedding))
    ]_vars

\* A duplicate was rejected by a store that holds two embeddings.
C7_Witness ==
  /\ Len(embeddings) >= 2
  /\ last.op = "add_peer_profile"
  /\ ~last.skip
  /\ WellFormed(last.profile)
  /\ SimilarToSome(last.profile.embedding, embeddings)
  /\ ~last.ret

\* C8: every stored profile has trimmed struggle_text of at least the minimum
\* length and a non-empty embedding.
C8_StoredProfilesValidated ==
  \A i \in 1..Len(profiles) : WellFormed(profiles[i])

\* C9: the value stored under a profile_id is never replaced: it is the same
\* profile in every later state.
C9_ProfileNeverReplaced ==
  [][ \A id \in Keys(profiles) :
        id \in Keys(profiles') /\ Get(profiles', id) = Get(profiles, id) ]_vars

\* The profile is one add_peer_profile has to reject on the embeddings embs.
MustReject(p, skip, embs) ==
  \/ StrLen(Strip(p.struggle_text)) < min_struggle_length
  \/ p.embedding = <<>>
  \/ ~skip /\ SimilarToSome(p.embedding, embs)

\* C10: add_peer_profile on a profile that is too short once trimmed, has no
\* embedding, or (deduplication not skipped) is as similar to a stored
\* embedding as the threshold returns False, persists nothing and leaves the
\* store as it was.
C10_RejectedAddChangesNothing ==
  [][ (last'.op = "add_peer_profile"
         /\ MustReject(last'.profile, last'.skip, embeddings))
      => (~last'.ret /\ last'.saves = 0 /\ UNCHANGED storeVars) ]_vars

\* A duplicate was rejected by a store with unsaved additions.
C10_Witness ==
  /\ last.op = "add_peer_profile"
  /\ WellFormed(last.profile)
  /\ ~last.skip
  /\ SimilarToSome(last.profile.embedding, embeddings)
  /\ ~last.ret
  /\ additions_since_save > 0

\* C6: under the interleavings of add_peer_profile, _load_persisted_data and
\* get_stats, every get_stats call reports as many profiles in the map as
\* embeddings in the list (the identifiers in play are all different, so the
\* two counts are equal after every whole call).
C6_ReaderSeesMapAndListAgree ==
  observed.op = "get_stats" => observed.total_profiles = observed.total_embeddings

(***************************************************************************)
(* Properties of process_message.                                          *)
(***************************************************************************)
HasCall(calls, c) == \E i \in 1..Len(calls) : calls[i] = c

\* The text is a draft of the Scribe, with or without the banner.
IsDraft(text) == text # <<>> /\ text[1] = "The Scribe has drafted a post for you:"

\* C1: whenever process_message returns an envelope whose social_draft or
\* main_response is a draft of the Scribe, the Guardian scanned a draft during
\* the call and guardian_report holds a report (is not None).
C1_DraftExposedOnlyWithReport ==
  (last.op = "process_message"
     /\ (IsDraft(last.responses.social_draft) \/ IsDraft(last.responses.main_response)))
  => /\ HasCall(last.calls, "guardian.scan_content")
     /\ last.responses.guardian_report # NoReport

\* A call returned a draft of the Scribe that the Guardian blocked.
C1_Witness ==
  /\ last.op = "process_message"
  /\ IsDraft(last.responses.main_response)
  /\ last.responses.guardian_report.blocked

\* C2: in auto mode, with a vector store, a message classified emotional has
\* the Matchmaker queried during the call.
C2_EmotionalAutoQueriesMatchmaker ==
  (last.op = "process_message" /\ last.agent_mode = "auto"
     /\ last.intent = "emotional" /\ last.has_store)
  => HasCall(last.calls, "matchmaker.process")

\* C3: in auto mode, a call whose intent is not shareable and that raised
\* nothing asks the Scribe for a draft.
C3_AutoRunsShareablePass ==
  (last.op = "process_message" /\ last.agent_mode = "auto"
     /\ last.intent # "shareable" /\ ~last.raised)
  => HasCall(last.calls, "scribe.process")

\* The agent the routing table gives for an intent, by the name agent_used carries.
TableAgent(intent) ==
  CASE intent = "emotional" -> "Vent Validator"
    [] intent \in {"technical", "grant"} -> "PI Simulator"
    [] intent \in {"positive", "shareable"} -> "The Scribe"
    [] OTHER -> "Vent Validator"

\* The process method of the agent with that name
ProcessCall(agent) ==
  CASE agent = "Vent Validator" -> "vent_validator.process"
    [] agent = "PI Simulator" -> "pi_simulator.process"
    [] agent = "The Scribe" -> "scribe.process"
    [] OTHER -> "matchmaker.process"

PrimaryCalls ==
  {"vent_validator.process", "pi_simulator.process", "scribe.process", "matchmaker.process"}

\* C4: in auto mode the one agent invoked is the one the table gives for the
\* classified intent, and agent_used of the envelope names it.
C4_AutoNamesTheTableAgent ==
  (last.op = "process_message" /\ last.agent_mode = "auto")
  => /\ SelectSeq(last.calls, LAMBDA c : c \in PrimaryCalls)
          = <<ProcessCall(TableAgent(last.intent))>>
     /\ last.responses.agent_used = TableAgent(last.intent)

EnvelopeKeys ==
  {"main_response", "peer_matches", "social_draft", "guardian_report",
   "agent_metadata", "agent_used"}

Records(d) == [i \in 1..Len(d) |-> ProfileDict(d[i])]

\* C11: an accepted add_peer_profile raises additions_since_save by one; when
\* the counter then reaches auto_save_interval the call saves once, the file
\* of a successful write holds the records of all profiles of the store, and
\* the counter is 0; otherwise nothing is saved.  After the call
\* 0 <= additions_since_save < auto_save_interval.
C11_CounterAndAutoSave ==
  [][ (last'.op = "add_peer_profile" /\ last'.ret)
      => /\ IF additions_since_save + 1 >= AutoSaveInterval
              THEN /\ last'.saves = 1
                   /\ additions_since_save' = 0
                   /\ last'.ioOk => file' = [exists |-> TRUE, data |-> Records(profiles')]
              ELSE /\ last'.saves = 0
                   /\ additions_since_save' = additions_since_save + 1
                   /\ file' = file
         /\ 0 <= additions_since_save'
         /\ additions_since_save' < AutoSaveInterval ]_vars

\* An accepted add reached the interval: the store was saved with two records
\* and the counter is back at 0.
C11_Witness ==
  /\ last.op = "add_peer_profile"
  /\ last.ret
  /\ last.saves = 1
  /\ last.ioOk
  /\ additions_since_save = 0
  /\ Len(file.data) = 2
  /\ file.data = Records(profiles)

\* C12: an add_profiles_batch call saves exactly once when it added a
\* profile and not at all otherwise, and leaves additions_since_save at 0
\* when it added a profile.
C12_BatchPersistsOnce ==
  last.op = "add_profiles_batch"
  => /\ last.saves = (IF last.added_count > 0 THEN 1 ELSE 0)
     /\ last.added_count > 0 => additions_since_save = 0

(***************************************************************************)
(* Properties of search.                                                   *)
(***************************************************************************)
\* The positions of the embedding list whose similarity to q reaches num/den.
AboveThreshold(q, num, den) ==
  {i \in 1..Len(embeddings) : CosSimGE(q, embeddings[i], num, den)}

Min(a, b) == IF a < b THEN a ELSE b

\* pos lists distinct positions of cand, those of highest similarity to q,
\* in non-increasing order of similarity.
IsTopRanking(pos, q, cand) ==
  /\ \A k \in DOMAIN pos : pos[k] \in cand
  /\ \A k, l \in DOMAIN pos : k < l =>
        /\ pos[k] # pos[l]
        /\ CloserOrEqual(q, embeddings[pos[k]], embeddings[pos[l]])
  /\ \A k \in DOMAIN pos : \A j \in cand \ {pos[l] : l \in DOMAIN pos} :
        CloserOrEqual(q, embeddings[pos[k]], embeddings[j])

\* C13: on a store in which every embedding belongs to a profile of its
\* own, a search_similar call that returns gives the profiles of the
\* min(top_k, n) stored embeddings most similar to the query among the n
\* whose similarity reaches the threshold, most similar first.
C13_SearchReturnsTheTopK ==
  (last.op = "search_similar" /\ ~last.raised /\ Len(profiles) = Len(embeddings))
  => LET q == generate_embedding(last.query_text)
         cand == AboveThreshold(q, last.num, last.den)
         n == Min(last.top_k, Cardinality(cand))
     IN  /\ Len(last.ret) = n
         /\ \E pos \in [1..n -> 1..Len(embeddings)] :
              /\ IsTopRanking(pos, q, cand)
              /\ \A k \in 1..n : last.ret[k].profile_id = profile_ids[pos[k]]

\* C14: a search_similar call on a store with embeddings whose embedding call
\* fails raises nothing and returns the empty list.
C14_SearchDegradesToEmpty ==
  (last.op = "search_similar" /\ ~last.embOk /\ embeddings # <<>>)
  => (~last.raised /\ last.ret = <<>>)

\* The profile_ids of a list of results, in order.
ResultIds(results) == [k \in 1..Len(results) |-> results[k].profile_id]

\* C18: whenever the store has a FAISS index, _search_faiss and
\* _search_cosine return the same ranked list of profile_ids for every query,
\* top_k and threshold.
C18_BackendsAgree ==
  (use_faiss /\ index.built)
  => \A query_text \in SearchQueries, top_k \in SearchTopKs, th \in SearchThresholds :
       ResultIds(search_faiss(Store, generate_embedding(query_text), top_k, th[1], th[2]))
         = ResultIds(search_cosine(Store, generate_embedding(query_text), top_k, th[1], th[2]))

(***************************************************************************)
(* Properties of persistence and reload.                                   *)
(***************************************************************************)
\* The (profile_id, struggle_text, academic_stage, research_area) records of
\* the dict d.
RecordSet(d) ==
  {[profile_id |-> d[i].profile_id, struggle_text |-> d[i].struggle_text,
    academic_stage |-> d[i].academic_stage, research_area |-> d[i].research_area]
     : i \in 1..Len(d)}

\* A store just constructed on the persistence file f.
FreshStore(f) ==
  [profiles |-> <<>>, embeddings |-> <<>>, profile_ids |-> <<>>,
   index |-> [built |-> FALSE, vecs |-> <<>>], use_faiss |-> use_faiss,
   additions_since_save |-> 0, persisted_data_loaded |-> FALSE, file |-> f]

\* C16: saving the store and loading the saved file into a fresh store, all
\* embedding calls succeeding, gives a store with the same set of
\* (profile_id, struggle_text, academic_stage, research_area) records and as
\* many embeddings as the saved store.
C16_RoundTrip ==
  LET loaded == load_persisted_data(FreshStore(save_to_json(Store, TRUE).store.file), TRUE, {})
  IN  /\ RecordSet(loaded.profiles) = RecordSet(profiles)
      /\ Len(loaded.embeddings) = Len(embeddings)

\* C17: when a _load_persisted_data call that loads the file completes on a
\* store that uses FAISS and holds embeddings, whichever records failed, the
\* index is the one built from the whole embedding list.
C17_ReloadEndsWithFullIndex ==
  [][ (last'.op = "load_persisted_data" /\ ~persisted_data_loaded
         /\ use_faiss' /\ embeddings' # <<>>)
      => index' = [built |-> TRUE, vecs |-> embeddings'] ]_vars

(***************************************************************************)
(* Properties of the Guardian.                                             *)
(***************************************************************************)
\* C19: the report of every scan_content call has blocked = true exactly
\* when its risk_level is HIGH.
C19_BlockedIffHigh ==
  last.op = "scan_content"
  => (last.report.blocked <=> last.report.risk_level = "HIGH")

\* The report the handler of scan_content returns.
IsManualReviewReport(report) ==
  /\ report.risk_level = "MEDIUM"
  /\ ~report.blocked
  /\ report.suggestions # <<>>

C21_GrantThenShareOverride ==
  (last.op = "classify" /\ ReturnsText(last.response)) =>
    /\ ContainsAny(last.message, grant_keywords) => last.intent = "grant"
    /\ (ContainsAny(last.message, scribe_keywords)
          /\ ~ContainsAny(last.message, grant_keywords)) => last.intent = "shareable"

\* A message with grant, share, technical, positive and emotional keywords,
\* labelled emotional by the model, classified as grant.
C21_Witness ==
  /\ last.op = "classify"
  /\ last.response = "emotional"
  /\ ContainsAny(last.message, grant_keywords)
  /\ ContainsAny(last.message, scribe_keywords)
  /\ ContainsAny(last.message, emotional_keywords)
  /\ ContainsAny(last.message, technical_keywords)
  /\ last.intent = "grant"

\* C22: when the model call returns a text, a message with a technical and
\* an emotional keyword and no grant or share keyword classifies as
\* emotional, whatever label the model returned.
C22_TechnicalAndEmotionalIsEmotional ==
  (/\ last.op = "classify"
   /\ ReturnsText(last.response)
   /\ ContainsAny(last.message, technical_keywords)
   /\ ContainsAny(last.message, emotional_keywords)
   /\ ~ContainsAny(last.message, grant_keywords)
   /\ ~ContainsAny(last.message, scribe_keywords)) => last.intent = "emotional"


(***************************************************************************)
(* The marker blocks of an agent's reply.                                  *)
(***************************************************************************)
\* The positions of the marker blocks of a text
BlockPositions(t) == {i \in 1..Len(t) : BlockOf(t[i]).type # "none"}

\* The block loads and has fields the parser reads
IsWellFormed(part) ==
  /\ BlockOf(part).json = "object"
  /\ BlockFields(BlockOf(part).type, BlockOf(part).keys) # {}

\* The text without its marker blocks, stripped
WithoutBlocks(t) == Strip(SelectSeq(t, LAMBDA x : BlockOf(x).type = "none"))

C26_BadBlockRemovedWithoutFields ==
  last.op = "parse_agent_response" =>
    \A i \in BlockPositions(last.response) :
      BlockOf(last.response[i]).json \in {"invalid", "absent"} =>
        /\ \A j \in 1..Len(last.clean_response) :
             last.clean_response[j] # last.response[i]
        /\ (\A k \in BlockPositions(last.response) :
               k # i => BlockOf(last.response[k]).type # BlockOf(last.response[i]).type)
             => last.metadata \cap
                  (IF BlockOf(last.response[i]).type = "EMOTIONAL_ANALYSIS"
                     THEN {"emotional_spectrum", "emotional_intensity",
                           "grounding_technique"}
                     ELSE {"clarity_score", "logic_score", "critique_focus"}) = {}


(***************************************************************************)
(* The conversation history.                                               *)
(***************************************************************************)
\* C24: a process_message call appends the user's message and the
\* assistant's reply to session.messages after the messages already there:
\* the session holds at least two messages more than before the call and
\* the earlier messages are unchanged.
C24_CallAppendsToHistory ==
  last.op = "process_message" =>
    /\ Len(last.messages) >= Len(last.session) + 2
    /\ SubSeq(last.messages, 1, Len(last.session)) = last.session
    /\ \E i \in 1..Len(last.messages) : last.messages[i] = last.message


(***************************************************************************)
(* The message of the orchestrator's exception handler.                    *)
(***************************************************************************)
\* C25: when process_message catches an exception, main_response holds no
\* text of the caught exception: it is the configuration notice when the
\* error text suggests a credential failure and otherwise a message in which
\* no word of the exception's text occurs.
C25_HandlerMessageHidesException ==
  (last.op = "process_message" /\ last.raised) =>
    /\ ContainsAny(last.error, {"api key", "authentication", "gemini"})
         => last.responses.main_response = <<"I'm experiencing a configuration issue.">>
    /\ \A i \in 1..Len(last.responses.main_response), j \in 1..Len(last.error) :
         last.error[j] # " " => last.responses.main_response[i] # last.error[j]


(***************************************************************************)
(* The capture of user messages into the vector store.                     *)
(***************************************************************************)
\* C27: a process_message call adds the user's message to the vector store
\* only if the message is emotionally salient, that is, its classified
\* intent is emotional or it contains a distress keyword; and with data
\* capture disabled no process_message call changes the store.
C27_OnlySalientMessagesCaptured ==
  [][ last'.op = "process_message" =>
        /\ embeddings' # embeddings =>
             \/ last'.intent = "emotional"
             \/ is_emotional_struggle(last'.message)
        /\ ~last'.enabled => UNCHANGED storeVars ]_vars


(***************************************************************************)
(* The three containers of the store and the save counter.                 *)
(***************************************************************************)
\* C28: in every state reached by add_peer_profile, add_profiles_batch,
\* add_peer_profile_from_session, load_from_json and _load_persisted_data
\* the three containers have the same length, no identifier occurs twice in
\* profile_ids, and profile_ids[i] is a key of profiles whose profile has the
\* embedding embeddings[i].
C28_ContainersAligned ==
  /\ Len(profiles) = Len(embeddings)
  /\ Len(embeddings) = Len(profile_ids)
  /\ \A i, j \in 1..Len(profile_ids) : i # j => profile_ids[i] # profile_ids[j]
  /\ \A i \in 1..Len(profile_ids) :
       /\ profile_ids[i] \in Keys(profiles)
       /\ i <= Len(embeddings) =>
            Get(profiles, profile_ids[i]).embedding = embeddings[i]

\* C29: additions_since_save is the number of profiles accepted since the
\* last successful save: an accepted add_peer_profile whose save fails, or
\* that does not save, leaves the counter one higher, and only a successful
\* save sets it to 0.
C29_CounterResetOnlyBySuccessfulSave ==
  [][ (last'.op = "add_peer_profile" /\ last'.ret)
      => additions_since_save' =
           IF last'.saves = 1 /\ last'.ioOk THEN 0 ELSE additions_since_save + 1 ]_vars


(***************************************************************************)
(* Loading the persisted data once.                                        *)
(***************************************************************************)
\* The number of entries of the list ids that are the identifier id
Occurrences(ids, id) == Cardinality({i \in 1..Len(ids) : ids[i] = id})

\* C30: persisted data is loaded at most once under any interleaving of
\* _load_persisted_data calls: each record of the persistence file has at
\* most one entry in profile_ids and in embeddings, and
\* _persisted_data_loaded is true once a call has returned.
C30_PersistedDataLoadedOnce ==
  /\ \A k \in 1..Len(file.data) : Occurrences(profile_ids, file.data[k].profile_id) <= 1
  /\ Len(embeddings) <= Len(file.data)
  /\ (loader.pc = "done" \/ reloader.pc = "done") => persisted_data_loaded

====
